---- MODULE Spec2Model ----
(***************************************************************************)
(* Tiled-inference reconstruction of wooded-area-mapping:                  *)
(* predict_scene (src/predict_wooded_batch_gcs.py), whose loop is repeated *)
(* verbatim in main of src/predict_wooded_dl.py, fed by compute_features   *)
(* (src/compute_features.py).                                              *)
(*                                                                         *)
(* Rasters are 0-based planes [0..H-1 -> [0..W-1 -> value]].               *)
(* float32 values are pairs <<m, e>> standing for m * 2^e, with m = 0      *)
(* (zero) or 2^23 <= m < 2^24 (normalised); <<-1, 0>> is NaN.  Sums and    *)
(* quotients are rounded to nearest, ties to even, as numpy does.          *)
(***************************************************************************)
EXTENDS Integers, Sequences, FiniteSets, TLC

\* ------------------------------------------------------------------ bounds
MaxH == 3
MaxW == 3
MaxP == 4
MaxBatch == 2
NumScenes == 3
\* compute_accuracy_metrics: pixels on which the rasters agree, per class, and
\* pixels on which they disagree, per direction
MaxAgree == 10
MaxDisagree == 2
\* compute_features: channels, rows and columns of the image read, and the
\* number of bits of the seed its pixel values are drawn from
MaxC == 6
MaxFH == 2
MaxFW == 2
SeedBits == 4
\* the index functions on their own: band values from -MaxNegBand to MaxBand
MaxNegBand == 1
MaxBand == 2
\* predict_wooded_dl: the largest channel count a checkpoint declares
MaxNChannels == 7
\* rank_scenes: the largest number of scene pairs in the directory
MaxRows == 3
\* compute_temporal_features: the largest number of scene ids
MaxSeries == 3
\* echo runs: the number of value patterns of the echoed channel
MaxPattern == 4

\* The raster of the specification's edge-tile example (H = W = 10, P = 8).
ExampleDims == <<10, 10, 8>>

\* ----------------------------------------------------------------- float32
F0 == <<0, 0>>
FNaN == <<-1, 0>>
FHalf == <<8388608, -24>>
FOne == <<8388608, -23>>
\* float32(0.7), float32(0.9), float32(0.50001)
F07 == <<11744051, -24>>
F09 == <<15099494, -24>>
F050001 == <<8388776, -24>>

RECURSIVE BitLen(_)
BitLen(n) == IF n = 0 THEN 0 ELSE 1 + BitLen(n \div 2)

\* The float32 nearest to M * 2^E (M >= 0), ties to even.
RoundF32(M, E) ==
  IF M = 0 THEN F0
  ELSE LET L == BitLen(M) IN
    IF L <= 24 THEN <<M * 2^(24 - L), E - (24 - L)>>
    ELSE LET r    == L - 24
             q    == M \div 2^r
             rem  == M % 2^r
             half == 2^(r - 1)
             up   == rem > half \/ (rem = half /\ q % 2 = 1)
             q2   == IF up THEN q + 1 ELSE q
         IN IF q2 = 16777216 THEN <<8388608, E + r + 1>> ELSE <<q2, E + r>>

\* float32 a + b for a, b >= 0: the smaller operand is aligned with three
\* extra bits, the last one sticky.
FAdd(a, b) ==
  IF a[1] = 0 THEN b
  ELSE IF b[1] = 0 THEN a
  ELSE LET hi == IF a[2] >= b[2] THEN a ELSE b
           lo == IF a[2] >= b[2] THEN b ELSE a
           d  == hi[2] - lo[2]
       IN IF d > 26 THEN hi
          ELSE LET sh     == lo[1] * 8
                   sticky == sh % 2^d # 0
                   low    == sh \div 2^d
                   lowS   == IF sticky THEN (low \div 2) * 2 + 1 ELSE low
               IN RoundF32(hi[1] * 8 + lowS, hi[2] - 3)

\* float32 a / n for a >= 0 and a count n in 1..32 (a small integer is exact
\* in float32): the quotient keeps at least two extra bits and a sticky bit.
FDivN(a, n) ==
  IF a[1] = 0 THEN F0
  ELSE LET M == a[1] * 64
           q == M \div n
           s == IF M % n # 0 THEN 1 ELSE 0
       IN RoundF32(2 * q + s, a[2] - 7)

\* a > b for a, b >= 0
FGt(a, b) ==
  /\ a[1] # 0
  /\ \/ b[1] = 0
     \/ a[2] > b[2]
     \/ a[2] = b[2] /\ a[1] > b[1]

\* ------------------------------------------------------------------ inputs
\* Band order of the source image (compute_features.py line 20).
BAND_BLUE == 0
BAND_GREEN == 1
BAND_RED == 2
BAND_NIR == 3
\* Channel of the feature stack that holds NDVI (the first index after the
\* four base bands).
NDVI_CH == 4
NODATA == 255

Rows(h) == 0 .. (h - 1)
Cols(w) == 0 .. (w - 1)

\* Input scenes.  Every pixel of scene s carries five bits: the UDM value and
\* the four reflectances, each 0 or 1.  Scene 0 comes without a UDM file.
\* A band with values in {0, 1} is left unchanged by the percentile
\* normalisation of compute_features (lines 128-135): the percentiles satisfy
\* 0 <= lo <= hi <= 1, so when hi > lo the value 0 maps to (0 - lo)/(hi - lo)
\* <= 0 and the value 1 to (1 - lo)/(hi - lo) >= 1, which clip to 0 and 1;
\* when hi = lo the band is only clipped to [0, 1].
PixelCode(s, r, c) == (s + 3 * r + 5 * c) % 32
Bit(code, b) == (code \div 2^b) % 2
SceneUdm(s, h, w) == [r \in Rows(h) |-> [c \in Cols(w) |-> Bit(PixelCode(s, r, c), 0)]]
SceneBand(s, h, w, b) ==
  LET bit == IF b = BAND_RED THEN 1
             ELSE IF b = BAND_NIR THEN 2
             ELSE IF b = BAND_BLUE THEN 3 ELSE 4
  IN [r \in Rows(h) |-> [c \in Cols(w) |-> Bit(PixelCode(s, r, c), bit)]]
SceneImage(s, h, w) == [b \in 0 .. 3 |-> SceneBand(s, h, w, b)]
SceneHasUdm(s) == s # 0

Dims ==
  {<<h, w, p>> : h \in 1 .. MaxH, w \in 1 .. MaxW, p \in 1 .. MaxP} \cup {ExampleDims}

\* The classifier is a black box; these are the deterministic stand-ins:
\* a constant probability, an echo of the NDVI channel, and a ramp that
\* depends on the position inside the patch.
PVals == {FHalf, F07, F09, F050001}
Classifiers == {<<"const", c>> : c \in PVals} \cup {<<"echo", F0>>, <<"ramp", F0>>}

\* ------------------------------------------------------- compute_features
\* Mutant: a zero denominator gives 0 instead of NaN.
RatioZero(num, den) ==
  IF den = 0 THEN [nan |-> FALSE, num |-> 0, den |-> 1]
  ELSE IF den < 0 THEN [nan |-> FALSE, num |-> -num, den |-> -den]
  ELSE [nan |-> FALSE, num |-> num, den |-> den]

\* The raw indices on one pixel, as fractions num / den with den > 0, NaN where
\* the denominator is 0.
Ratio(num, den) ==
  IF den = 0 THEN [nan |-> TRUE, num |-> 0, den |-> 1]
  ELSE IF den < 0 THEN [nan |-> FALSE, num |-> -num, den |-> -den]
  ELSE [nan |-> FALSE, num |-> num, den |-> den]

\* compute_ndvi on one pixel: (nir - red) / (nir + red)
compute_ndvi(red, nir) == Ratio(nir - red, nir + red)

\* The float32 nearest to p / q for 0 < p < q and p < 32.
RoundQ(p, q) ==
  LET M == p * 2^26
      sticky == IF M % q # 0 THEN 1 ELSE 0
  IN RoundF32(2 * (M \div q) + sticky, -27)

\* np.clip(x, 0, 1).astype(np.float32) of the fraction x
ClipToF32(x) ==
  IF x[1] <= 0 THEN F0 ELSE IF x[1] >= x[2] THEN FOne ELSE RoundQ(x[1], x[2])

\* np.clip((x + 1) / 2, 0, 1).astype(np.float32); NaN passes through clip.
\* On the values that occur here the float64 steps and the final rounding give
\* the float32 nearest to the exact quotient.
RescaleIndex(x) ==
  IF x.nan THEN FNaN ELSE ClipToF32(<<x.num + x.den, 2 * x.den>>)

\* np.nan_to_num(., nan=0.0)
NanToNum(f) == IF f = FNaN THEN F0 ELSE f

BandToFloat(v) == RoundF32(v, 0)

\* compute_features(include_ndvi=True, include_evi=False, normalize=True):
\* the four base bands followed by the NDVI channel.
compute_features(img, h, w) ==
  [ch \in 0 .. NDVI_CH |->
     [r \in Rows(h) |-> [c \in Cols(w) |->
        IF ch < NDVI_CH THEN BandToFloat(img[ch][r][c])
        ELSE NanToNum(RescaleIndex(compute_ndvi(img[BAND_RED][r][c], img[BAND_NIR][r][c])))]]]

\* valid_mask = ones, replaced by udm != 0 when the UDM file exists.
MakeValidMask(s, h, w) ==
  IF SceneHasUdm(s)
  THEN [r \in Rows(h) |-> [c \in Cols(w) |-> SceneUdm(s, h, w)[r][c] # 0]]
  ELSE [r \in Rows(h) |-> [c \in Cols(w) |-> TRUE]]

\* ------------------------------------------------------------ predict_scene
VARIABLES
  scene,        \* id of the input scene
  clf,          \* the classifier (model)
  H, W,         \* raster shape
  patch_size,
  batch_size,
  features,     \* (C, H, W)
  valid_mask,   \* (H, W) booleans
  prob, count,  \* the accumulator planes
  batches,      \* patches waiting for the classifier
  batch_boxes,  \* their extents (r0, r1, c0, c1)
  pred,         \* the classifier's answer for the current batch
  k,            \* index into the current batch while accumulating
  ro, co,       \* loop counters: the next tile origin
  binary,       \* the output mask, <<>> until thresholding
  pc,
  \* history
  origins,       \* origins handed to get_patch so far
  tile,          \* the last result of get_patch, with its paddings
  batch_origins, \* origins of the patches in batches
  consumed,      \* tiles accumulated so far: origin and probability plane
  prob_sum,      \* prob as it was when normalisation began, <<>> before
  submitted      \* origins of the patches handed to the classifier so far

\* compute_accuracy_metrics (src/accuracy_metrics.py)
VARIABLES
  m_pc,
  m_pred, m_ref,      \* the two rasters as read: [shape, data (row-major)]
  m_pred_nodata,      \* the pred_nodata argument
  m_ref_nodata_val,   \* <<FALSE, 0>> for None, <<TRUE, v>> for the value v
  m_counts,           \* valid, n_valid, n_skip, tp, tn, fp, fn; <<>> until counted
  m_metrics,          \* the returned statistics; <<>> until returned
  \* history
  m_read_shapes       \* the shapes of pred and ref as read, before np.squeeze

\* compute_features (src/compute_features.py) run on its own
VARIABLES
  cf_pc,
  cf_img,             \* img: [shape, data (row-major)]
  cf_flags,           \* include_ndvi, include_evi, include_savi, include_ndwi, normalize
  cf_features,        \* the returned stack; <<>> until returned
  \* history
  cf_read             \* img as src.read() returned it

\* compute_ndvi, compute_evi, compute_savi, compute_ndwi called on one pixel
VARIABLES
  ix_px,              \* the pixel: blue, green, red, nir
  ix_out              \* per function its result, <<>> until it has returned

\* main of src/predict_wooded_dl.py: one image, up to the written raster
VARIABLES
  dl_pc,
  dl_n_channels,      \* the channel count of the checkpoint
  dl_img,             \* img: [shape, data (row-major)]
  dl_patch_size,
  dl_batch_size,
  dl_remaining,       \* tiles the loops have not cut yet
  dl_submitted,       \* patches handed to the classifier so far
  dl_written,         \* the output raster has been written
  \* history
  dl_read             \* img as src.read() returned it

\* main of src/predict_wooded_batch_gcs.py: the loop over the scenes
VARIABLES
  bt_pc,
  bt_scene_ids,       \* scene_ids
  bt_i,               \* position of the current scene in scene_ids, from 1
  bt_n_channels,
  bt_H, bt_W,         \* the raster size of the scenes
  bt_patch_size,
  bt_batch_size,
  bt_model,
  bt_features,
  bt_valid_mask,
  bt_prob, bt_count,  \* the planes of the latest predict_scene call
  bt_binary,
  bt_written,         \* the local rasters: [at, scene, binary]
  bt_uploaded,        \* positions of the scenes whose raster was uploaded
  bt_log              \* how each scene visited so far ended: [scene, outcome]

\* main of src/wooded_map_single_image.py: the NDVI-threshold map
VARIABLES
  wm_pc,
  wm_red, wm_nir,     \* the two bands, row-major
  wm_udm,             \* None (no mask used) or Some(UDM2 band 1, row-major)
  wm_nodata,          \* the no-data value the source declares, or None
  wm_threshold,       \* args.ndvi_threshold as a fraction <<num, den>>
  wm_ndvi,
  wm_wooded,
  wm_meta_nodata      \* meta["nodata"]

\* main of src/rank_scenes.py: filter, sort, recommend
VARIABLES
  rk_pc,
  rk_rows,            \* rows: [scene_id, clear_pct, mean_ndvi]
  rk_min_clear,       \* args.min_clear
  rk_eligible,
  rk_best

\* compute_temporal_features of src/compute_temporal_features.py
VARIABLES
  tf_pc,
  tf_scene_ids,       \* scene_ids: [doy, kind, raster] per scene
  tf_n,               \* position of the scene the loading loop is at, from 1
  tf_ndvi_scenes,     \* ndvi_scenes: positions of the loaded scenes |-> NDVI
  tf_ref_shape,
  tf_ndvi_stack,
  tf_max_ndvi,
  tf_doy_max_ndvi,    \* doy / 365.0 as <<doy, 365>>, row-major
  \* history
  tf_stacked          \* positions in scene_ids of the stacked scenes

\* predict_scene with a classifier that echoes a channel of its input
VARIABLES
  ec_pc,
  ec_H, ec_W,
  ec_patch_size,
  ec_batch_size,
  ec_features,
  ec_prob, ec_count

pvars == <<scene, clf, H, W, patch_size, batch_size, features, valid_mask,
           prob, count, batches, batch_boxes, pred, k, ro, co, binary, pc,
           origins, tile, batch_origins, consumed, prob_sum, submitted>>
mvars == <<m_pc, m_pred, m_ref, m_pred_nodata, m_ref_nodata_val, m_counts,
           m_metrics, m_read_shapes>>
cfvars == <<cf_pc, cf_img, cf_flags, cf_features, cf_read>>
ixvars == <<ix_px, ix_out>>
dlvars == <<dl_pc, dl_n_channels, dl_img, dl_patch_size, dl_batch_size,
            dl_remaining, dl_submitted, dl_written, dl_read>>
btvars == <<bt_pc, bt_scene_ids, bt_i, bt_n_channels, bt_H, bt_W,
            bt_patch_size, bt_batch_size, bt_model, bt_features,
            bt_valid_mask, bt_prob, bt_count, bt_binary, bt_written,
            bt_uploaded, bt_log>>
wmvars == <<wm_pc, wm_red, wm_nir, wm_udm, wm_nodata, wm_threshold, wm_ndvi,
            wm_wooded, wm_meta_nodata>>
rkvars == <<rk_pc, rk_rows, rk_min_clear, rk_eligible, rk_best>>
tfvars == <<tf_pc, tf_scene_ids, tf_n, tf_ndvi_scenes, tf_ref_shape,
            tf_ndvi_stack, tf_stacked, tf_max_ndvi, tf_doy_max_ndvi>>
ecvars == <<ec_pc, ec_H, ec_W, ec_patch_size, ec_batch_size, ec_features,
            ec_prob, ec_count>>
vars == <<pvars, mvars, cfvars, ixvars, dlvars, btvars, wmvars, rkvars,
          tfvars, ecvars>>

PredictIdle ==
  /\ scene = 0 /\ clf = <<>> /\ H = 0 /\ W = 0 /\ patch_size = 0 /\ batch_size = 0
  /\ features = <<>> /\ valid_mask = <<>> /\ prob = <<>> /\ count = <<>>
  /\ batches = <<>> /\ batch_boxes = <<>> /\ pred = <<>> /\ k = 0 /\ ro = 0 /\ co = 0
  /\ binary = <<>> /\ pc = "off" /\ origins = <<>> /\ tile = <<>>
  /\ batch_origins = <<>> /\ consumed = <<>> /\ prob_sum = <<>> /\ submitted = <<>>
MetricsIdle ==
  /\ m_pc = "off" /\ m_pred = <<>> /\ m_ref = <<>> /\ m_pred_nodata = 0
  /\ m_ref_nodata_val = <<>> /\ m_counts = <<>> /\ m_metrics = <<>>
  /\ m_read_shapes = <<>>
FeaturesIdle ==
  /\ cf_pc = "off" /\ cf_img = <<>> /\ cf_flags = <<>> /\ cf_features = <<>>
  /\ cf_read = <<>>
IndexIdle == ix_px = <<>> /\ ix_out = <<>>
SingleIdle ==
  /\ dl_pc = "off" /\ dl_n_channels = 0 /\ dl_img = <<>> /\ dl_patch_size = 0
  /\ dl_batch_size = 0 /\ dl_remaining = 0 /\ dl_submitted = 0
  /\ dl_written = FALSE /\ dl_read = <<>>
BatchIdle ==
  /\ bt_pc = "off" /\ bt_scene_ids = <<>> /\ bt_i = 0 /\ bt_n_channels = 0
  /\ bt_H = 0 /\ bt_W = 0 /\ bt_patch_size = 0 /\ bt_batch_size = 0
  /\ bt_model = <<>> /\ bt_features = <<>> /\ bt_valid_mask = <<>>
  /\ bt_prob = <<>> /\ bt_count = <<>> /\ bt_binary = <<>>
  /\ bt_written = <<>> /\ bt_uploaded = <<>> /\ bt_log = <<>>
MapIdle ==
  /\ wm_pc = "off" /\ wm_red = <<>> /\ wm_nir = <<>> /\ wm_udm = <<>>
  /\ wm_nodata = <<>> /\ wm_threshold = <<>> /\ wm_ndvi = <<>>
  /\ wm_wooded = <<>> /\ wm_meta_nodata = <<>>
RankIdle ==
  /\ rk_pc = "off" /\ rk_rows = <<>> /\ rk_min_clear = 0 /\ rk_eligible = <<>>
  /\ rk_best = <<>>
TemporalIdle ==
  /\ tf_pc = "off" /\ tf_scene_ids = <<>> /\ tf_n = 0 /\ tf_ndvi_scenes = <<>>
  /\ tf_ref_shape = <<>> /\ tf_ndvi_stack = <<>> /\ tf_stacked = <<>>
  /\ tf_max_ndvi = <<>> /\ tf_doy_max_ndvi = <<>>
EchoIdle ==
  /\ ec_pc = "off" /\ ec_H = 0 /\ ec_W = 0 /\ ec_patch_size = 0 /\ ec_batch_size = 0
  /\ ec_features = <<>> /\ ec_prob = <<>> /\ ec_count = <<>>

\* For each program, the variables of the other programs, which its steps
\* leave alone, and the predicate that says none of the others is running.
Others == <<mvars, cfvars, ixvars, dlvars, btvars, wmvars, rkvars, tfvars,
            ecvars>>
OthersIdle ==
  /\ MetricsIdle
  /\ FeaturesIdle
  /\ IndexIdle
  /\ SingleIdle
  /\ BatchIdle
  /\ MapIdle
  /\ RankIdle
  /\ TemporalIdle
  /\ EchoIdle
EvalOthers == <<pvars, cfvars, ixvars, dlvars, btvars, wmvars, rkvars,
                tfvars, ecvars>>
EvalOthersIdle ==
  /\ PredictIdle
  /\ FeaturesIdle
  /\ IndexIdle
  /\ SingleIdle
  /\ BatchIdle
  /\ MapIdle
  /\ RankIdle
  /\ TemporalIdle
  /\ EchoIdle
FeatOthers == <<pvars, mvars, ixvars, dlvars, btvars, wmvars, rkvars, tfvars,
                ecvars>>
FeatOthersIdle ==
  /\ PredictIdle
  /\ MetricsIdle
  /\ IndexIdle
  /\ SingleIdle
  /\ BatchIdle
  /\ MapIdle
  /\ RankIdle
  /\ TemporalIdle
  /\ EchoIdle
IndexOthers == <<pvars, mvars, cfvars, dlvars, btvars, wmvars, rkvars,
                 tfvars, ecvars>>
IndexOthersIdle ==
  /\ PredictIdle
  /\ MetricsIdle
  /\ FeaturesIdle
  /\ SingleIdle
  /\ BatchIdle
  /\ MapIdle
  /\ RankIdle
  /\ TemporalIdle
  /\ EchoIdle
SingleOthers == <<pvars, mvars, cfvars, ixvars, btvars, wmvars, rkvars,
                  tfvars, ecvars>>
SingleOthersIdle ==
  /\ PredictIdle
  /\ MetricsIdle
  /\ FeaturesIdle
  /\ IndexIdle
  /\ BatchIdle
  /\ MapIdle
  /\ RankIdle
  /\ TemporalIdle
  /\ EchoIdle
BatchOthers == <<pvars, mvars, cfvars, ixvars, dlvars, wmvars, rkvars,
                 tfvars, ecvars>>
BatchOthersIdle ==
  /\ PredictIdle
  /\ MetricsIdle
  /\ FeaturesIdle
  /\ IndexIdle
  /\ SingleIdle
  /\ MapIdle
  /\ RankIdle
  /\ TemporalIdle
  /\ EchoIdle
MapOthers == <<pvars, mvars, cfvars, ixvars, dlvars, btvars, rkvars, tfvars,
               ecvars>>
MapOthersIdle ==
  /\ PredictIdle
  /\ MetricsIdle
  /\ FeaturesIdle
  /\ IndexIdle
  /\ SingleIdle
  /\ BatchIdle
  /\ RankIdle
  /\ TemporalIdle
  /\ EchoIdle
RankOthers == <<pvars, mvars, cfvars, ixvars, dlvars, btvars, wmvars, tfvars,
                ecvars>>
RankOthersIdle ==
  /\ PredictIdle
  /\ MetricsIdle
  /\ FeaturesIdle
  /\ IndexIdle
  /\ SingleIdle
  /\ BatchIdle
  /\ MapIdle
  /\ TemporalIdle
  /\ EchoIdle
TemporalOthers == <<pvars, mvars, cfvars, ixvars, dlvars, btvars, wmvars,
                    rkvars, ecvars>>
TemporalOthersIdle ==
  /\ PredictIdle
  /\ MetricsIdle
  /\ FeaturesIdle
  /\ IndexIdle
  /\ SingleIdle
  /\ BatchIdle
  /\ MapIdle
  /\ RankIdle
  /\ EchoIdle
EchoOthers == <<pvars, mvars, cfvars, ixvars, dlvars, btvars, wmvars, rkvars,
                tfvars>>
EchoOthersIdle ==
  /\ PredictIdle
  /\ MetricsIdle
  /\ FeaturesIdle
  /\ IndexIdle
  /\ SingleIdle
  /\ BatchIdle
  /\ MapIdle
  /\ RankIdle
  /\ TemporalIdle

Max(a, b) == IF a >= b THEN a ELSE b
Min(a, b) == IF a <= b THEN a ELSE b

\* Mutant: tiles are laid side by side, without overlap.
StrideNoOverlap(p) == Max(1, p)

\* Mutant: the stride skips every other tile position.
StrideDouble(p) == 2 * p

\* stride = max(1, patch_size // 2)
Stride(p) == Max(1, p \div 2)
stride == Stride(patch_size)

\* Mutant: the padding is filled with zeros (np.pad's default mode).
PadZero(sub, dr, dc, pad_r0, pad_r1, pad_c0, pad_c1) ==
  [ch \in DOMAIN sub |->
     [i \in 0 .. (pad_r0 + dr + pad_r1 - 1) |->
        [j \in 0 .. (pad_c0 + dc + pad_c1 - 1) |->
           IF i - pad_r0 \in 0 .. (dr - 1) /\ j - pad_c0 \in 0 .. (dc - 1)
           THEN sub[ch][i - pad_r0][j - pad_c0]
           ELSE F0]]]

\* np.pad(patch, ((0,0), (pad_r0, pad_r1), (pad_c0, pad_c1)), mode="edge") of
\* the dr x dc block sub: every added cell copies the nearest cell of sub.
PadEdge(sub, dr, dc, pad_r0, pad_r1, pad_c0, pad_c1) ==
  [ch \in DOMAIN sub |->
     [i \in 0 .. (pad_r0 + dr + pad_r1 - 1) |->
        [j \in 0 .. (pad_c0 + dc + pad_c1 - 1) |->
           sub[ch][Max(0, Min(dr - 1, i - pad_r0))][Max(0, Min(dc - 1, j - pad_c0))]]]]

\* Mutant: the padding is put in front of the block, at the top and left.
get_patch_front(feat, h, w, P, o_r, o_c) ==
  LET r0 == Max(0, o_r)
      r1 == Min(h, o_r + P)
      c0 == Max(0, o_c)
      c1 == Min(w, o_c + P)
      pad_r1 == (o_r + P) - r1
      pad_c1 == (o_c + P) - c1
      sub == [ch \in DOMAIN feat |->
                [i \in 0 .. (r1 - r0 - 1) |-> [j \in 0 .. (c1 - c0 - 1) |->
                   feat[ch][r0 + i][c0 + j]]]]
      patch == IF pad_r1 > 0 \/ pad_c1 > 0
               THEN PadEdge(sub, r1 - r0, c1 - c0, pad_r1, 0, pad_c1, 0)
               ELSE sub
  IN [patch |-> patch, r0 |-> r0, r1 |-> r1, c0 |-> c0, c1 |-> c1,
      pads |-> <<pad_r1, 0, pad_c1, 0>>]

\* get_patch(ro, co) of predict_scene (lines 56-66)
get_patch(feat, h, w, P, o_r, o_c) ==
  LET r0 == Max(0, o_r)
      r1 == Min(h, o_r + P)
      c0 == Max(0, o_c)
      c1 == Min(w, o_c + P)
      pad_r0 == o_r - r0
      pad_r1 == (o_r + P) - r1
      pad_c0 == o_c - c0
      pad_c1 == (o_c + P) - c1
      sub == [ch \in DOMAIN feat |->
                [i \in 0 .. (r1 - r0 - 1) |-> [j \in 0 .. (c1 - c0 - 1) |->
                   feat[ch][r0 + i][c0 + j]]]]
      patch == IF pad_r0 > 0 \/ pad_r1 > 0 \/ pad_c0 > 0 \/ pad_c1 > 0
               THEN PadEdge(sub, r1 - r0, c1 - c0, pad_r0, pad_r1, pad_c0, pad_c1)
               ELSE sub
  IN [patch |-> patch, r0 |-> r0, r1 |-> r1, c0 |-> c0, c1 |-> c1,
      pads |-> <<pad_r0, pad_r1, pad_c0, pad_c1>>]

RampValue(i, j) == RoundF32(((3 * i + 5 * j) % 8) + 1, -3)

\* torch.sigmoid(model(x))[n, 0] for one patch of the batch.
Infer(m, patch) ==
  LET plane == patch[NDVI_CH]
  IN [i \in DOMAIN plane |-> [j \in DOMAIN plane[i] |->
        IF m[1] = "const" THEN m[2]
        ELSE IF m[1] = "echo" THEN plane[i][j]
        ELSE RampValue(i, j)]]

\* Mutant: the classifier returns the planes of a batch in reverse order.
ClassifyReversed(m, x) == [n \in 1 .. Len(x) |-> Infer(m, x[Len(x) + 1 - n])]

\* pred for a whole batch, in batch order.
Classify(m, x) == [n \in 1 .. Len(x) |-> Infer(m, x[n])]

\* Mutant: the rows and columns of the probability block are swapped.
AccumulateProbTransposed(p, box, plane) ==
  [r \in DOMAIN p |-> [c \in DOMAIN p[r] |->
        IF r >= box[1] /\ r < box[2] /\ c >= box[3] /\ c < box[4]
        THEN FAdd(p[r][c], plane[c - box[3]][r - box[1]])
        ELSE p[r][c]]]

\* Mutant: every value of the block is added twice.
AccumulateProbTwice(p, box, plane) ==
  [r \in DOMAIN p |-> [c \in DOMAIN p[r] |->
        IF r >= box[1] /\ r < box[2] /\ c >= box[3] /\ c < box[4]
        THEN FAdd(FAdd(p[r][c], plane[r - box[1]][c - box[3]]), plane[r - box[1]][c - box[3]])
        ELSE p[r][c]]]

\* prob[r0:r1, c0:c1] += pred[k, 0, :dr, :dc]
AccumulateProb(p, box, plane) ==
  \* the block pred[:dr, :dc] is laid over rows r0..r1-1 and columns c0..c1-1
  [r \in DOMAIN p |-> [c \in DOMAIN p[r] |->
        IF r >= box[1] /\ r < box[2] /\ c >= box[3] /\ c < box[4]
        THEN FAdd(p[r][c], plane[r - box[1]][c - box[3]])
        ELSE p[r][c]]]

\* Mutant: the count is raised over the whole raster, not over the extent.
AccumulateCountEverywhere(cnt, box) ==
  [r \in DOMAIN cnt |-> [c \in DOMAIN cnt[r] |-> cnt[r][c] + 1]]

\* count[r0:r1, c0:c1] += 1
AccumulateCount(cnt, box) ==
  [r \in DOMAIN cnt |-> [c \in DOMAIN cnt[r] |->
     IF r >= box[1] /\ r < box[2] /\ c >= box[3] /\ c < box[4]
     THEN cnt[r][c] + 1
     ELSE cnt[r][c]]]

\* count[count == 0] = 1
GuardCount(cnt) ==
  [r \in DOMAIN cnt |-> [c \in DOMAIN cnt[r] |-> IF cnt[r][c] = 0 THEN 1 ELSE cnt[r][c]]]

\* Mutant: the sums are returned without the division.
NormalizeProbSkipped(p, cnt) == p

\* prob /= count
NormalizeProb(p, cnt) ==
  [r \in DOMAIN p |-> [c \in DOMAIN p[r] |-> FDivN(p[r][c], cnt[r][c])]]

\* Mutant: the comparison with 0.5 is not strict.
ThresholdGe(p) ==
  [r \in DOMAIN p |-> [c \in DOMAIN p[r] |-> IF ~FGt(FHalf, p[r][c]) THEN 1 ELSE 0]]

\* (prob > 0.5).astype(np.uint8)
Threshold(p) ==
  [r \in DOMAIN p |-> [c \in DOMAIN p[r] |-> IF FGt(p[r][c], FHalf) THEN 1 ELSE 0]]

\* Mutant: the overwrite only reaches pixels the threshold left at 0.
MaskInvalidZeros(b, valid) ==
  [r \in DOMAIN b |-> [c \in DOMAIN b[r] |->
     IF ~valid[r][c] /\ b[r][c] = 0 THEN NODATA ELSE b[r][c]]]

\* binary[~valid_mask] = 255
MaskInvalid(b, valid) ==
  [r \in DOMAIN b |-> [c \in DOMAIN b[r] |-> IF ~valid[r][c] THEN NODATA ELSE b[r][c]]]

Init ==
  /\ scene \in 0 .. (NumScenes - 1)
  /\ clf \in Classifiers
  /\ \E d \in Dims : H = d[1] /\ W = d[2] /\ patch_size = d[3]
  /\ batch_size \in 1 .. MaxBatch
  /\ features = compute_features(SceneImage(scene, H, W), H, W)
  /\ valid_mask = MakeValidMask(scene, H, W)
  /\ prob = [r \in Rows(H) |-> [c \in Cols(W) |-> F0]]
  /\ count = [r \in Rows(H) |-> [c \in Cols(W) |-> 0]]
  /\ batches = <<>>
  /\ batch_boxes = <<>>
  /\ pred = <<>>
  /\ k = 0
  /\ ro = 0
  /\ co = 0
  /\ binary = <<>>
  /\ pc = "loop"
  /\ origins = <<>>
  /\ tile = <<>>
  /\ batch_origins = <<>>
  /\ consumed = <<>>
  /\ prob_sum = <<>>
  /\ submitted = <<>>
  /\ OthersIdle

Inputs == <<scene, clf, H, W, patch_size, batch_size, features, valid_mask>>

\* Mutant: the loops are nested the other way round (column-major order).
AdvanceLoopColumnMajor ==
  /\ ro' = IF ro + stride < H THEN ro + stride ELSE 0
  /\ co' = IF ro + stride < H THEN co ELSE co + stride
  /\ pc' = IF ro + stride < H \/ co + stride < W THEN "loop" ELSE "tail"

\* The step of the two nested range() loops after the tile at (ro, co).
AdvanceLoop ==
  /\ co' = IF co + stride < W THEN co + stride ELSE 0
  /\ ro' = IF co + stride < W THEN ro ELSE ro + stride
  /\ pc' = IF co + stride < W \/ ro + stride < H THEN "loop" ELSE "tail"

\* One iteration of the inner loop up to the batch test (lines 70-79): cut
\* the patch, queue it, and call the classifier when the batch is full.
NextTile ==
  /\ pc = "loop"
  /\ LET t == get_patch(features, H, W, patch_size, ro, co)
         full == Len(batches) + 1 >= batch_size
     IN /\ batches' = Append(batches, t.patch)
        /\ batch_boxes' = Append(batch_boxes, <<t.r0, t.r1, t.c0, t.c1>>)
        /\ origins' = Append(origins, <<ro, co>>)
        /\ batch_origins' = Append(batch_origins, <<ro, co>>)
        /\ tile' = [ro |-> ro, co |-> co, patch |-> t.patch, r0 |-> t.r0, r1 |-> t.r1,
                    c0 |-> t.c0, c1 |-> t.c1, pads |-> t.pads]
        /\ IF full
           THEN /\ pred' = Classify(clf, batches')
                /\ submitted' = submitted \o batch_origins'
                /\ k' = 0
                /\ pc' = "accum"
                /\ UNCHANGED <<ro, co>>
           ELSE /\ AdvanceLoop
                /\ UNCHANGED <<pred, k, submitted>>
  /\ UNCHANGED <<Others, Inputs, prob, count, binary, consumed, prob_sum>>

\* The body of "for k, (r0, r1, c0, c1) in enumerate(batch_boxes)".
AccumulateOne ==
  /\ prob' = AccumulateProb(prob, batch_boxes[k + 1], pred[k + 1])
  /\ count' = AccumulateCount(count, batch_boxes[k + 1])
  /\ consumed' = Append(consumed, [ro |-> batch_origins[k + 1][1],
                                   co |-> batch_origins[k + 1][2],
                                   plane |-> pred[k + 1]])
  /\ k' = k + 1

\* Lines 80-84: accumulate one tile of a full batch; after the last one the
\* batch is emptied and the loops step on.
AccumulateInLoop ==
  /\ pc = "accum"
  /\ AccumulateOne
  /\ IF k + 1 < Len(batch_boxes)
     THEN UNCHANGED <<batches, batch_boxes, batch_origins, ro, co, pc>>
     ELSE /\ batches' = <<>>
          /\ batch_boxes' = <<>>
          /\ batch_origins' = <<>>
          /\ AdvanceLoop
  /\ UNCHANGED <<Others, Inputs, pred, binary, origins, tile, prob_sum, submitted>>

\* Line 86-90: "if batches:" after the loops, with the classifier call.
FlushTail ==
  /\ pc = "tail"
  /\ batches # <<>>
  /\ pred' = Classify(clf, batches)
  /\ submitted' = submitted \o batch_origins
  /\ k' = 0
  /\ pc' = "accum_tail"
  /\ UNCHANGED <<Others, Inputs, prob, count, batches, batch_boxes, ro, co, binary,
                 origins, tile, batch_origins, consumed, prob_sum>>

SkipTail ==
  /\ pc = "tail"
  /\ batches = <<>>
  /\ pc' = "normalize"
  /\ UNCHANGED <<Others, Inputs, prob, count, batches, batch_boxes, pred, k, ro, co,
                 binary, origins, tile, batch_origins, consumed, prob_sum, submitted>>

\* Lines 91-94.
AccumulateTail ==
  /\ pc = "accum_tail"
  /\ AccumulateOne
  /\ pc' = IF k + 1 < Len(batch_boxes) THEN "accum_tail" ELSE "normalize"
  /\ UNCHANGED <<Others, Inputs, batches, batch_boxes, batch_origins, pred, ro, co,
                 binary, origins, tile, prob_sum, submitted>>

\* Lines 96-97.
Normalize ==
  /\ pc = "normalize"
  /\ count' = GuardCount(count)
  /\ prob' = NormalizeProb(prob, count')
  /\ prob_sum' = prob
  /\ pc' = "threshold"
  /\ UNCHANGED <<Others, Inputs, batches, batch_boxes, pred, k, ro, co, binary,
                 origins, tile, batch_origins, consumed, submitted>>

\* Line 98.
ThresholdStep ==
  /\ pc = "threshold"
  /\ binary' = Threshold(prob)
  /\ pc' = "mask"
  /\ UNCHANGED <<Others, Inputs, prob, count, batches, batch_boxes, pred, k, ro, co,
                 origins, tile, batch_origins, consumed, prob_sum, submitted>>

\* Lines 99-101.
MaskStep ==
  /\ pc = "mask"
  /\ binary' = MaskInvalid(binary, valid_mask)
  /\ pc' = "done"
  /\ UNCHANGED <<Others, Inputs, prob, count, batches, batch_boxes, pred, k, ro, co,
                 origins, tile, batch_origins, consumed, prob_sum, submitted>>

Next ==
  \/ NextTile
  \/ AccumulateInLoop
  \/ FlushTail
  \/ SkipTail
  \/ AccumulateTail
  \/ Normalize
  \/ ThresholdStep
  \/ MaskStep

Spec == Init /\ [][Next]_vars

\* ================================================ compute_accuracy_metrics
\* ---------------------------------------------------------------- rationals
\* The statistics are Python floats (binary64) computed from integer counts.
\* They are kept here as exact fractions <<num, den>> in lowest terms, den > 0;
\* <<0, 0>> stands for a ZeroDivisionError.  For counts below 2^26 the tests the
\* code makes on them agree with the exact values: a quotient of two positive
\* integers is a positive float, a sum of non-negative floats is 0 only if both
\* are, and pe = X / n^2 rounds to 1.0 only if X = n^2 (else it differs from 1
\* by at least 1 / n^2 > 2^-53).
Abs(x) == IF x < 0 THEN -x ELSE x

RECURSIVE GCD(_, _)
GCD(a, b) == IF b = 0 THEN a ELSE GCD(b, a % b)

RErr == <<0, 0>>
IsErr(a) == a[2] = 0

Rat(n, d) ==
  IF d = 0 THEN RErr
  ELSE LET g == GCD(Abs(n), Abs(d))
           sg == IF d < 0 THEN -1 ELSE 1
       IN <<sg * (n \div g), Abs(d) \div g>>

RZero == Rat(0, 1)
ROne == Rat(1, 1)
RTwo == Rat(2, 1)
RAdd(a, b) == IF IsErr(a) \/ IsErr(b) THEN RErr ELSE Rat(a[1] * b[2] + b[1] * a[2], a[2] * b[2])
RSub(a, b) == IF IsErr(a) \/ IsErr(b) THEN RErr ELSE Rat(a[1] * b[2] - b[1] * a[2], a[2] * b[2])
RMul(a, b) == IF IsErr(a) \/ IsErr(b) THEN RErr ELSE Rat(a[1] * b[1], a[2] * b[2])
RDiv(a, b) == IF IsErr(a) \/ IsErr(b) THEN RErr ELSE Rat(a[1] * b[2], a[2] * b[1])
RPositive(a) == a[1] > 0 /\ a[2] > 0

\* ------------------------------------------------------------------ rasters
\* A band as rasterio returns it: a shape (rows, columns) and its values in
\* row-major order.  astype(np.int64) keeps every value of a raster band.
Repeat(x, n) == [i \in 1 .. n |-> x]
NumPixels(shape) == IF Len(shape) = 0 THEN 1 ELSE IF Len(shape) = 1 THEN shape[1] ELSE shape[1] * shape[2]
ShapesOf(n) == {sh \in (1 .. n) \X (1 .. n) : sh[1] * sh[2] = n}

\* The pairs <<reference value, predicted value>> of the pixels of a scene:
\* n11 wooded in both, n00 wooded in neither, n01 and n10 in one only, and
\* then the pixels of extra.
PixelPairs(n11, n00, n01, n10, extra) ==
  Repeat(<<1, 1>>, n11) \o Repeat(<<0, 0>>, n00) \o Repeat(<<0, 1>>, n01)
    \o Repeat(<<1, 0>>, n10) \o extra

AgreeCounts == {0, 1, 5} \cup (10 .. MaxAgree)
Extras ==
  { <<>>,
    << <<NODATA, NODATA>> >>,
    << <<0, NODATA>>, <<NODATA, 1>>, <<2, 0>>, <<1, 3>> >> }
None == <<FALSE, 0>>
Some(v) == <<TRUE, v>>

\* np.squeeze: every axis of length 1 is removed.
Squeeze(a) == [shape |-> SelectSeq(a.shape, LAMBDA d : d # 1), data |-> a.data]

\* valid_ref, lines 41-43
ValidRef(reference, nodata) ==
  [i \in DOMAIN reference.data |->
     /\ (reference.data[i] = 0 \/ reference.data[i] = 1)
     /\ (nodata # None => reference.data[i] # nodata[2])]

\* valid_pred, line 44
ValidPred(predicted) == [i \in DOMAIN predicted.data |-> predicted.data[i] = 0 \/ predicted.data[i] = 1]

\* valid, line 45
Valid(reference, predicted, nodata) ==
  [i \in DOMAIN reference.data |-> ValidRef(reference, nodata)[i] /\ ValidPred(predicted)[i]]

\* int(((y_true == t) & (y_pred == p)).sum()) over ref[valid], pred[valid]
CountWhere(reference, predicted, valid, t, p) ==
  Cardinality({i \in DOMAIN valid : valid[i] /\ reference.data[i] = t /\ predicted.data[i] = p})

\* Mutant: false positives and false negatives change places.
ConfusionMatrixSwapped(reference, predicted, valid) ==
  [tp |-> CountWhere(reference, predicted, valid, 1, 1), tn |-> CountWhere(reference, predicted, valid, 0, 0),
   fp |-> CountWhere(reference, predicted, valid, 1, 0), fn |-> CountWhere(reference, predicted, valid, 0, 1)]

\* tp, tn, fp, fn, lines 54-57
ConfusionMatrix(reference, predicted, valid) ==
  [tp |-> CountWhere(reference, predicted, valid, 1, 1), tn |-> CountWhere(reference, predicted, valid, 0, 0),
   fp |-> CountWhere(reference, predicted, valid, 0, 1), fn |-> CountWhere(reference, predicted, valid, 1, 0)]

\* line 59
Accuracy(tp, tn, n_valid) == IF n_valid # 0 THEN Rat(tp + tn, n_valid) ELSE RZero

\* Mutant: precision is divided out without looking at tp + fp.
PrecisionUnguarded(tp, fp) == Rat(tp, tp + fp)

\* line 60
Precision(tp, fp) == IF tp + fp > 0 THEN Rat(tp, tp + fp) ELSE RZero

\* Mutant: recall is taken over the missed pixels only.
RecallOverMisses(tp, fn) == IF tp + fn > 0 THEN Rat(tp, Max(1, fn)) ELSE RZero

\* line 61
Recall(tp, fn) == IF tp + fn > 0 THEN Rat(tp, tp + fn) ELSE RZero

\* Mutant: the factor 2 of the harmonic mean is left out.
F1Halved(precision, recall) ==
  IF RPositive(RAdd(precision, recall))
  THEN RDiv(RMul(precision, recall), RAdd(precision, recall))
  ELSE RZero

\* line 62
F1(precision, recall) ==
  IF RPositive(RAdd(precision, recall))
  THEN RDiv(RMul(RMul(RTwo, precision), recall), RAdd(precision, recall))
  ELSE RZero

\* line 66
Pe(tp, tn, fp, fn, n_valid) ==
  IF n_valid # 0
  THEN Rat((tp + fp) * (tp + fn) + (fn + tn) * (fp + tn), n_valid * n_valid)
  ELSE RZero

\* Mutant: kappa is divided out without looking at 1 - pe.
KappaUnguarded(po, pe) == RDiv(RSub(po, pe), RSub(ROne, pe))

\* line 67
Kappa(po, pe) ==
  IF RSub(ROne, pe) # RZero THEN RDiv(RSub(po, pe), RSub(ROne, pe)) ELSE RZero

\* The state after both bands are read (lines 29-32).
EvalInit ==
  /\ EvalOthersIdle
  /\ \E n11 \in AgreeCounts, n00 \in {0, 1, 5},
        n01 \in 0 .. MaxDisagree, n10 \in 0 .. 1, extra \in Extras :
       LET px == PixelPairs(n11, n00, n01, n10, extra)
       IN /\ Len(px) >= 1
          /\ \E psh \in ShapesOf(Len(px)) :
             \E rsh \in {psh, <<psh[2], psh[1]>>, <<psh[1], psh[2] + 1>>} :
               /\ m_pred = [shape |-> psh, data |-> [i \in 1 .. Len(px) |-> px[i][2]]]
               /\ m_ref = [shape |-> rsh,
                           data |-> [i \in 1 .. NumPixels(rsh) |->
                                       IF i <= Len(px) THEN px[i][1] ELSE 0]]
               /\ m_read_shapes = <<psh, rsh>>
  /\ m_pred_nodata \in {NODATA, 0}
  /\ m_ref_nodata_val \in {None, Some(NODATA), Some(0)}
  /\ m_counts = <<>>
  /\ m_metrics = <<>>
  /\ m_pc = "read"

\* lines 34-35
SqueezeStep ==
  /\ m_pc = "read"
  /\ m_pred' = Squeeze(m_pred)
  /\ m_ref' = Squeeze(m_ref)
  /\ m_pc' = "squeezed"
  /\ UNCHANGED <<EvalOthers, m_pred_nodata, m_ref_nodata_val, m_counts, m_metrics,
                 m_read_shapes>>

\* lines 37-38: raise ValueError
ShapeError ==
  /\ m_pc = "squeezed"
  /\ m_pred.shape # m_ref.shape
  /\ m_pc' = "ValueError"
  /\ UNCHANGED <<EvalOthers, m_pred, m_ref, m_pred_nodata, m_ref_nodata_val,
                 m_counts, m_metrics, m_read_shapes>>

\* lines 40-57
CountPixels ==
  /\ m_pc = "squeezed"
  /\ m_pred.shape = m_ref.shape
  /\ LET valid == Valid(m_ref, m_pred, m_ref_nodata_val)
         cm == ConfusionMatrix(m_ref, m_pred, valid)
     IN m_counts' = [valid |-> valid,
                     n_valid |-> Cardinality({i \in DOMAIN valid : valid[i]}),
                     n_skip |-> Cardinality({i \in DOMAIN valid : ~valid[i]}),
                     tp |-> cm.tp, tn |-> cm.tn, fp |-> cm.fp, fn |-> cm.fn]
  /\ m_pc' = "counted"
  /\ UNCHANGED <<EvalOthers, m_pred, m_ref, m_pred_nodata, m_ref_nodata_val,
                 m_metrics, m_read_shapes>>

\* lines 59-78; a division by zero ends the call without a result
DeriveMetrics ==
  /\ m_pc = "counted"
  /\ LET c == m_counts
         accuracy == Accuracy(c.tp, c.tn, c.n_valid)
         precision == Precision(c.tp, c.fp)
         recall == Recall(c.tp, c.fn)
         f1 == F1(precision, recall)
         po == accuracy
         pe == Pe(c.tp, c.tn, c.fp, c.fn, c.n_valid)
         kappa == Kappa(po, pe)
     IN IF \E x \in {accuracy, precision, recall, f1, pe, kappa} : IsErr(x)
        THEN /\ m_pc' = "ZeroDivisionError"
             /\ m_metrics' = m_metrics
        ELSE /\ m_pc' = "returned"
             /\ m_metrics' = [accuracy |-> accuracy, precision |-> precision,
                              recall |-> recall, f1 |-> f1, kappa |-> kappa,
                              confusion_matrix |-> [tp |-> c.tp, tn |-> c.tn,
                                                    fp |-> c.fp, fn |-> c.fn],
                              n_valid |-> c.n_valid, n_skip |-> c.n_skip]
  /\ UNCHANGED <<EvalOthers, m_pred, m_ref, m_pred_nodata, m_ref_nodata_val,
                 m_counts, m_read_shapes>>

EvalNext ==
  \/ SqueezeStep
  \/ ShapeError
  \/ CountPixels
  \/ DeriveMetrics

EvalSpec == EvalInit /\ [][EvalNext]_vars

\* ======================================================== compute_features
\* The value of a float32 that holds an integer (band values here are 0 or 1);
\* np.asarray(., dtype=np.float64) keeps it.
AsFloat64(f) == IF f[2] >= 0 THEN f[1] * 2^f[2] ELSE f[1] \div 2^(-f[2])

RECURSIVE Size(_)
Size(shape) == IF shape = <<>> THEN 1 ELSE shape[1] * Size(Tail(shape))

\* img[b] of an array with at least one axis, as its values in row-major order
Band(a, b) ==
  LET cs == Size(Tail(a.shape)) IN SubSeq(a.data, b * cs + 1, (b + 1) * cs)

\* The value of band b at pixel j of the image drawn from a seed.
SeedValue(seed, b, j) == Bit(seed, (b + j) % SeedBits)

\* src.read(): (C, H, W)
ReadImage(seed, nc, h, w) ==
  [shape |-> <<nc, h, w>>,
   data |-> [i \in 1 .. nc * h * w |-> SeedValue(seed, (i - 1) \div (h * w), (i - 1) % (h * w))]]

\* Mutant: a two-dimensional image is refused like any image of fewer than 4
\* bands.
EnsureFourBandsStrict(read) ==
  LET sq == Squeeze(read)
      img == [shape |-> sq.shape, data |-> [i \in DOMAIN sq.data |-> BandToFloat(sq.data[i])]]
  IN IF Len(img.shape) = 0 THEN [err |-> "IndexError", img |-> img]
     ELSE IF Len(img.shape) = 2 \/ img.shape[1] < 4 THEN [err |-> "ValueError", img |-> img]
     ELSE IF img.shape[1] > 4
          THEN [err |-> "",
                img |-> [shape |-> <<4>> \o Tail(img.shape),
                         data |-> SubSeq(img.data, 1, 4 * Size(Tail(img.shape)))]]
     ELSE [err |-> "", img |-> img]

\* lines 119-125: squeeze, convert to float32, and bring the image to 4 bands
EnsureFourBands(read) ==
  LET sq == Squeeze(read)
      img == [shape |-> sq.shape, data |-> [i \in DOMAIN sq.data |-> BandToFloat(sq.data[i])]]
  IN IF Len(img.shape) = 2
     THEN [err |-> "",
           img |-> [shape |-> <<4>> \o img.shape,
                    data |-> img.data \o img.data \o img.data \o img.data]]
     ELSE IF Len(img.shape) = 0 THEN [err |-> "IndexError", img |-> img]
     ELSE IF img.shape[1] < 4 THEN [err |-> "ValueError", img |-> img]
     ELSE IF img.shape[1] > 4
          THEN [err |-> "",
                img |-> [shape |-> <<4>> \o Tail(img.shape),
                         data |-> SubSeq(img.data, 1, 4 * Size(Tail(img.shape)))]]
     ELSE [err |-> "", img |-> img]

RLess(a, b) == a[1] * b[2] < b[1] * a[2]

RECURSIVE Insert(_, _)
Insert(x, srt) ==
  IF srt = <<>> THEN <<x>>
  ELSE IF RLess(srt[1], x) THEN <<srt[1]>> \o Insert(x, Tail(srt))
  ELSE <<x>> \o srt

RECURSIVE Sort(_)
Sort(vals) == IF vals = <<>> THEN <<>> ELSE Insert(vals[1], Sort(Tail(vals)))

\* np.nanpercentile(band, q) of the sorted values srt (no NaN among them):
\* linear interpolation at position (n - 1) * q / 100.
Percentile(srt, q) ==
  LET n == Len(srt)
      j == ((n - 1) * q) \div 100
      frac == Rat(((n - 1) * q) % 100, 100)
  IN IF j + 2 > n THEN srt[j + 1]
     ELSE RAdd(srt[j + 1], RMul(frac, RSub(srt[j + 2], srt[j + 1])))

\* lines 130-135 for one band
NormalizeBand(band) ==
  LET vals == [i \in DOMAIN band |-> Rat(AsFloat64(band[i]), 1)]
      srt == Sort(vals)
      lo == Percentile(srt, 1)
      hi == Percentile(srt, 99)
  IN IF RLess(lo, hi)
     THEN [i \in DOMAIN band |-> ClipToF32(RDiv(RSub(vals[i], lo), RSub(hi, lo)))]
     ELSE [i \in DOMAIN band |-> ClipToF32(vals[i])]

\* lines 128-135
NormalizeBands(img) ==
  [shape |-> img.shape,
   data |-> NormalizeBand(Band(img, 0)) \o NormalizeBand(Band(img, 1))
              \o NormalizeBand(Band(img, 2)) \o NormalizeBand(Band(img, 3))]

\* 2.5 * (nir - red) / (nir + 6 * red - 7.5 * blue + 1)
compute_evi(blue, red, nir) == Ratio(5 * (nir - red), 2 * nir + 12 * red - 15 * blue + 2)

\* ((nir - red) / (nir + red + 0.5)) * 1.5
compute_savi(red, nir) == Ratio(3 * (nir - red), 2 * nir + 2 * red + 1)

\* (green - nir) / (green + nir)
compute_ndwi(green, nir) == Ratio(green - nir, green + nir)

\* The same rescale as written for EVI, SAVI and NDWI (lines 155, 162, 168).
RescaleRatio(x) == RescaleIndex(x)

\* Mutant: the index channels are appended in alphabetical order.
IndexOrderAlphabetical == <<"evi", "ndvi", "ndwi", "savi">>

\* The order of the four "if include_..." blocks, lines 145-169.
IndexOrder == <<"ndvi", "evi", "savi", "ndwi">>

\* The value of one index channel at a pixel with the given band values.
IndexValue(nm, blue, green, red, nir) ==
  CASE nm = "ndvi" -> NanToNum(RescaleIndex(compute_ndvi(red, nir)))
    [] nm = "evi" -> NanToNum(RescaleRatio(compute_evi(blue, red, nir)))
    [] nm = "savi" -> RescaleRatio(compute_savi(red, nir))
    [] nm = "ndwi" -> RescaleRatio(compute_ndwi(green, nir))

IndexChannel(nm, img) ==
  [j \in 1 .. Size(Tail(img.shape)) |->
     IndexValue(nm, AsFloat64(Band(img, BAND_BLUE)[j]), AsFloat64(Band(img, BAND_GREEN)[j]),
                AsFloat64(Band(img, BAND_RED)[j]), AsFloat64(Band(img, BAND_NIR)[j]))]

RECURSIVE ConcatChannels(_, _)
ConcatChannels(names, img) ==
  IF names = <<>> THEN <<>>
  ELSE IndexChannel(names[1], img) \o ConcatChannels(Tail(names), img)

\* lines 137-171: features_list and np.concatenate(features_list, axis=0)
BuildStack(img, flags) ==
  LET sel == SelectSeq(IndexOrder, LAMBDA nm : flags[nm])
  IN [shape |-> <<4 + Len(sel)>> \o Tail(img.shape),
      data |-> img.data \o ConcatChannels(sel, img)]

\* The state after the image is read (lines 113-116).
FeatInit ==
  /\ FeatOthersIdle
  /\ \E seed \in 0 .. (2^SeedBits - 1), nc \in 1 .. MaxC, h \in 1 .. MaxFH, w \in 1 .. MaxFW :
       /\ h * w > 1
       /\ cf_read = ReadImage(seed, nc, h, w)
  /\ cf_img = cf_read
  /\ cf_flags \in [{"ndvi", "evi", "savi", "ndwi", "normalize"} -> BOOLEAN]
  /\ cf_features = <<>>
  /\ cf_pc = "read"

\* lines 119-125
EnsureBands ==
  /\ cf_pc = "read"
  /\ LET res == EnsureFourBands(cf_img)
     IN /\ cf_img' = res.img
        /\ cf_pc' = IF res.err # "" THEN res.err
                    ELSE IF cf_flags["normalize"] THEN "normalize" ELSE "stack"
  /\ UNCHANGED <<FeatOthers, cf_flags, cf_features, cf_read>>

\* lines 128-135
NormalizeStep ==
  /\ cf_pc = "normalize"
  /\ cf_img' = NormalizeBands(cf_img)
  /\ cf_pc' = "stack"
  /\ UNCHANGED <<FeatOthers, cf_flags, cf_features, cf_read>>

\* lines 137-184
BuildFeatures ==
  /\ cf_pc = "stack"
  /\ cf_features' = BuildStack(cf_img, cf_flags)
  /\ cf_pc' = "returned"
  /\ UNCHANGED <<FeatOthers, cf_img, cf_flags, cf_read>>

FeatNext ==
  \/ EnsureBands
  \/ NormalizeStep
  \/ BuildFeatures

FeatSpec == FeatInit /\ [][FeatNext]_vars

\* ============================================= the index functions alone
BandValues == (-MaxNegBand) .. MaxBand
IndexResults == {"ndvi", "evi", "savi", "ndwi", "ndvi01", "savi01"}

IndexInit ==
  /\ IndexOthersIdle
  /\ ix_px \in [{"blue", "green", "red", "nir"} -> BandValues]
  /\ ix_out = [nm \in IndexResults |-> <<>>]

Returns(nm, result) ==
  /\ ix_out[nm] = <<>>
  /\ ix_out' = [ix_out EXCEPT ![nm] = result]
  /\ UNCHANGED <<IndexOthers, ix_px>>

\* lines 23-31
CallNdvi == ix_px # <<>> /\ Returns("ndvi", compute_ndvi(ix_px["red"], ix_px["nir"]))
\* lines 34-48
CallEvi == ix_px # <<>> /\ Returns("evi", compute_evi(ix_px["blue"], ix_px["red"], ix_px["nir"]))
\* lines 51-64
CallSavi == ix_px # <<>> /\ Returns("savi", compute_savi(ix_px["red"], ix_px["nir"]))
\* lines 67-80
CallNdwi == ix_px # <<>> /\ Returns("ndwi", compute_ndwi(ix_px["green"], ix_px["nir"]))
\* line 148
RescaleNdvi == ix_out["ndvi"] # <<>> /\ Returns("ndvi01", RescaleIndex(ix_out["ndvi"]))
\* line 162
RescaleSavi == ix_out["savi"] # <<>> /\ Returns("savi01", RescaleRatio(ix_out["savi"]))

IndexNext ==
  \/ CallNdvi
  \/ CallEvi
  \/ CallSavi
  \/ CallNdwi
  \/ RescaleNdvi
  \/ RescaleSavi

IndexSpec == IndexInit /\ [][IndexNext]_vars

\* ==================================================== predict_wooded_dl.main
\* lines 62-67: the legacy branch brings the image to 4 bands or fails; the
\* checkpoint's channel count is not looked at.
LegacyFourBands(read, n_channels) ==
  LET sq == Squeeze(read)
      img == [shape |-> sq.shape, data |-> [i \in DOMAIN sq.data |-> BandToFloat(sq.data[i])]]
  IN IF Len(img.shape) = 2
     THEN [err |-> "",
           img |-> [shape |-> <<4>> \o img.shape,
                    data |-> img.data \o img.data \o img.data \o img.data]]
     ELSE IF Len(img.shape) = 0 THEN [err |-> "IndexError", img |-> img]
     ELSE IF img.shape[1] # 4 THEN [err |-> "ValueError", img |-> img]
     ELSE [err |-> "", img |-> img]

\* The number of tile origins of the two loops, range(0, h, stride) each.
NumTiles(h, w, p) ==
  ((h + Stride(p) - 1) \div Stride(p)) * ((w + Stride(p) - 1) \div Stride(p))

DlFlags == [ndvi |-> TRUE, evi |-> TRUE, savi |-> FALSE, ndwi |-> FALSE, normalize |-> TRUE]

\* The state after the checkpoint and the image are read (lines 32-45).
DlInit ==
  /\ SingleOthersIdle
  /\ dl_n_channels \in 1 .. MaxNChannels
  /\ \E seed \in {5, 10}, nc \in 1 .. MaxC, h \in 1 .. MaxFH, w \in 1 .. MaxFW :
       /\ h * w > 1
       /\ dl_read = ReadImage(seed, nc, h, w)
  /\ dl_img = dl_read
  /\ dl_patch_size \in 1 .. 2
  /\ dl_batch_size \in 1 .. MaxBatch
  /\ dl_remaining = NumTiles(dl_read.shape[2], dl_read.shape[3], dl_patch_size)
  /\ dl_submitted = 0
  /\ dl_written = FALSE
  /\ dl_pc = "read"

\* lines 47-60: n_channels > 4, the features come from compute_features
DlComputeFeatures ==
  /\ dl_pc = "read"
  /\ dl_n_channels > 4
  /\ LET res == EnsureFourBands(dl_read)
         stack == BuildStack(NormalizeBands(res.img), DlFlags)
     IN IF res.err # ""
        THEN dl_pc' = res.err /\ dl_img' = dl_img
        ELSE IF stack.shape[1] # dl_n_channels
        THEN dl_pc' = "ValueError" /\ dl_img' = stack
        ELSE dl_pc' = "loop" /\ dl_img' = stack
  /\ UNCHANGED <<SingleOthers, dl_n_channels, dl_patch_size, dl_batch_size, dl_remaining,
                 dl_submitted, dl_written, dl_read>>

\* lines 61-74: the legacy 4-band branch
DlLegacy ==
  /\ dl_pc = "read"
  /\ dl_n_channels <= 4
  /\ LET res == LegacyFourBands(dl_read, dl_n_channels)
     IN IF res.err # ""
        THEN dl_pc' = res.err /\ dl_img' = dl_img
        ELSE dl_pc' = "loop" /\ dl_img' = NormalizeBands(res.img)
  /\ UNCHANGED <<SingleOthers, dl_n_channels, dl_patch_size, dl_batch_size, dl_remaining,
                 dl_submitted, dl_written, dl_read>>

\* lines 98-124: the next batch of tiles is cut and handed to the classifier.
\* What a classifier built for n_channels does with patches of another
\* channel count is its own business: it raises or it answers.
DlSubmitBatch ==
  /\ dl_pc = "loop"
  /\ dl_remaining > 0
  /\ LET n == Min(dl_batch_size, dl_remaining)
     IN /\ dl_submitted' = dl_submitted + n
        /\ dl_remaining' = dl_remaining - n
  /\ \/ dl_pc' = "loop"
     \/ dl_img.shape[1] # dl_n_channels /\ dl_pc' = "ClassifierError"
  /\ UNCHANGED <<SingleOthers, dl_n_channels, dl_img, dl_patch_size, dl_batch_size,
                 dl_written, dl_read>>

\* lines 126-134: normalise, threshold, mask and write the raster
DlWrite ==
  /\ dl_pc = "loop"
  /\ dl_remaining = 0
  /\ dl_written' = TRUE
  /\ dl_pc' = "done"
  /\ UNCHANGED <<SingleOthers, dl_n_channels, dl_img, dl_patch_size, dl_batch_size,
                 dl_remaining, dl_submitted, dl_read>>

DlNext ==
  \/ DlComputeFeatures
  \/ DlLegacy
  \/ DlSubmitBatch
  \/ DlWrite

DlSpec == DlInit /\ [][DlNext]_vars

\* ============================================ predict_wooded_batch_gcs.main
\* The scene lists and raster sizes <<h, w, patch_size>> of the batch runs.
BatchLists == {<<0>>, <<1, 0>>, <<2, 1, 2>>, <<1, 1, 0>>}
BatchDims == {<<1, 2, 1>>, <<2, 2, 2>>, <<3, 2, 2>>, <<2, 3, 4>>}
BatchModels == {<<"echo", F0>>, <<"ramp", F0>>, <<"const", F07>>}

\* The tile origins in the order of the two nested range() loops.
TileOrigins(h, w, p) ==
  LET nr == (h + Stride(p) - 1) \div Stride(p)
      nc == (w + Stride(p) - 1) \div Stride(p)
  IN [n \in 1 .. (nr * nc) |-> <<((n - 1) \div nc) * Stride(p), ((n - 1) % nc) * Stride(p)>>]

\* Mutant: the planes of the previous call are used again.
NewPlanesKept(prev, h, w) ==
  IF prev.prob = <<>>
  THEN [prob |-> [r \in Rows(h) |-> [c \in Cols(w) |-> F0]],
        count |-> [r \in Rows(h) |-> [c \in Cols(w) |-> 0]]]
  ELSE prev

\* prob = np.zeros((h, w)); count = np.zeros((h, w)), whatever an earlier
\* call left behind
NewPlanes(prev, h, w) ==
  [prob |-> [r \in Rows(h) |-> [c \in Cols(w) |-> F0]],
   count |-> [r \in Rows(h) |-> [c \in Cols(w) |-> 0]]]

RECURSIVE ConsumeBatch(_, _, _, _)
\* for k, (r0, r1, c0, c1) in enumerate(batch_boxes): from the n-th on
ConsumeBatch(planes, boxes, planes_out, n) ==
  IF n > Len(boxes) THEN planes
  ELSE ConsumeBatch([prob |-> AccumulateProb(planes.prob, boxes[n], planes_out[n]),
                     count |-> AccumulateCount(planes.count, boxes[n])],
                    boxes, planes_out, n + 1)

RECURSIVE TileLoop(_, _, _, _, _, _, _, _)
\* The two loops from the n-th origin on, with the flush after them; acc is
\* [planes, batches, boxes].
TileLoop(acc, feat, h, w, p, bsz, m, n) ==
  LET origins_all == TileOrigins(h, w, p)
  IN IF n > Len(origins_all)
     THEN IF acc.batches = <<>> THEN acc.planes
          ELSE ConsumeBatch(acc.planes, acc.boxes, Classify(m, acc.batches), 1)
     ELSE LET t == get_patch(feat, h, w, p, origins_all[n][1], origins_all[n][2])
              queued == Append(acc.batches, t.patch)
              boxes == Append(acc.boxes, <<t.r0, t.r1, t.c0, t.c1>>)
          IN IF Len(queued) >= bsz
             THEN TileLoop([planes |-> ConsumeBatch(acc.planes, boxes, Classify(m, queued), 1),
                            batches |-> <<>>, boxes |-> <<>>],
                           feat, h, w, p, bsz, m, n + 1)
             ELSE TileLoop([planes |-> acc.planes, batches |-> queued, boxes |-> boxes],
                           feat, h, w, p, bsz, m, n + 1)

\* predict_scene on the planes it starts from: [prob, count, binary] at return
predict_scene(start, feat, valid, h, w, p, bsz, m) ==
  LET summed == TileLoop([planes |-> start, batches |-> <<>>, boxes |-> <<>>],
                         feat, h, w, p, bsz, m, 1)
      cnt == GuardCount(summed.count)
      avg == NormalizeProb(summed.prob, cnt)
  IN [prob |-> avg, count |-> cnt, binary |-> MaskInvalid(Threshold(avg), valid)]

\* The state when the loop over scene_ids is entered (lines 162-193).
BatchInit ==
  /\ BatchOthersIdle
  /\ bt_scene_ids \in BatchLists
  /\ bt_n_channels \in {NDVI_CH + 1, NDVI_CH + 2}
  /\ \E d \in BatchDims : bt_H = d[1] /\ bt_W = d[2] /\ bt_patch_size = d[3]
  /\ bt_batch_size \in 1 .. MaxBatch
  /\ bt_model \in BatchModels
  /\ bt_i = 1
  /\ bt_features = <<>>
  /\ bt_valid_mask = <<>>
  /\ bt_prob = <<>>
  /\ bt_count = <<>>
  /\ bt_binary = <<>>
  /\ bt_written = <<>>
  /\ bt_uploaded = <<>>
  /\ bt_log = <<>>
  /\ bt_pc = "exists"

BatchInputs == <<bt_scene_ids, bt_n_channels, bt_H, bt_W, bt_patch_size, bt_batch_size, bt_model>>

\* "continue", or the end of the loop body: the scene is logged and the loop
\* steps to the next scene or to the closing print.
NextScene(outcome) ==
  /\ bt_log' = Append(bt_log, [scene |-> bt_scene_ids[bt_i], outcome |-> outcome])
  /\ bt_i' = bt_i + 1
  /\ bt_pc' = IF bt_i < Len(bt_scene_ids) THEN "exists" ELSE "completed"

\* "except Exception as e: print(...); continue" (lines 268-270)
Caught(step) == NextScene(step)

\* lines 198-201: check_scene_exists is called before the try block; it
\* answers, or the storage client raises and nothing catches it.
CheckExists ==
  /\ bt_pc = "exists"
  /\ \/ bt_pc' = "download" /\ UNCHANGED <<bt_i, bt_log>>
     \/ NextScene("no_sr")
     \/ bt_pc' = "aborted" /\ UNCHANGED <<bt_i, bt_log>>
  /\ UNCHANGED <<BatchOthers, BatchInputs, bt_features, bt_valid_mask, bt_prob, bt_count,
                 bt_binary, bt_written, bt_uploaded>>

\* line 205
Download ==
  /\ bt_pc = "download"
  /\ \/ bt_pc' = "features" /\ UNCHANGED <<bt_i, bt_log>>
     \/ Caught("download")
  /\ UNCHANGED <<BatchOthers, BatchInputs, bt_features, bt_valid_mask, bt_prob, bt_count,
                 bt_binary, bt_written, bt_uploaded>>

\* lines 208-227: the features, the channel check and the validity mask
Features ==
  /\ bt_pc = "features"
  /\ \/ LET stack == compute_features(SceneImage(bt_scene_ids[bt_i], bt_H, bt_W), bt_H, bt_W)
        IN IF Cardinality(DOMAIN stack) # bt_n_channels
           THEN Caught("channels") /\ UNCHANGED <<bt_features, bt_valid_mask>>
           ELSE /\ bt_features' = stack
                /\ bt_valid_mask' = MakeValidMask(bt_scene_ids[bt_i], bt_H, bt_W)
                /\ bt_pc' = "predict"
                /\ UNCHANGED <<bt_i, bt_log>>
     \/ Caught("features") /\ UNCHANGED <<bt_features, bt_valid_mask>>
  /\ UNCHANGED <<BatchOthers, BatchInputs, bt_prob, bt_count, bt_binary, bt_written,
                 bt_uploaded>>

\* lines 230-237: predict_scene, or an exception out of the classifier
Predict ==
  /\ bt_pc = "predict"
  /\ \/ LET res == predict_scene(NewPlanes([prob |-> bt_prob, count |-> bt_count], bt_H, bt_W),
                                 bt_features, bt_valid_mask, bt_H, bt_W, bt_patch_size,
                                 bt_batch_size, bt_model)
        IN /\ bt_prob' = res.prob
           /\ bt_count' = res.count
           /\ bt_binary' = res.binary
           /\ bt_pc' = "write"
           /\ UNCHANGED <<bt_i, bt_log>>
     \/ Caught("inference") /\ UNCHANGED <<bt_prob, bt_count, bt_binary>>
  /\ UNCHANGED <<BatchOthers, BatchInputs, bt_features, bt_valid_mask, bt_written, bt_uploaded>>

\* lines 240-243
WriteLocal ==
  /\ bt_pc = "write"
  /\ \/ /\ bt_written' = Append(bt_written, [at |-> bt_i, scene |-> bt_scene_ids[bt_i],
                                             binary |-> bt_binary])
        /\ bt_pc' = "upload"
        /\ UNCHANGED <<bt_i, bt_log>>
     \/ Caught("write") /\ UNCHANGED bt_written
  /\ UNCHANGED <<BatchOthers, BatchInputs, bt_features, bt_valid_mask, bt_prob, bt_count,
                 bt_binary, bt_uploaded>>

\* lines 246-266: the upload; the counts and the optional metrics only print
Upload ==
  /\ bt_pc = "upload"
  /\ \/ bt_uploaded' = Append(bt_uploaded, bt_i) /\ NextScene("ok")
     \/ Caught("upload") /\ UNCHANGED bt_uploaded
  /\ UNCHANGED <<BatchOthers, BatchInputs, bt_features, bt_valid_mask, bt_prob, bt_count,
                 bt_binary, bt_written>>

BatchNext ==
  \/ CheckExists
  \/ Download
  \/ Features
  \/ Predict
  \/ WriteLocal
  \/ Upload

BatchSpec == BatchInit /\ [][BatchNext]_vars

\* ============================================= wooded_map_single_image.main
\* The rasters are 2 x 2; a pixel is one of these <<red, nir>> pairs, with
\* NDVI undefined, -1, 2/5 and 1/2.
MapPixels == {<<0, 0>>, <<1, 0>>, <<3, 7>>, <<1, 3>>}
MapSize == 4
MapRasters == [1 .. MapSize -> MapPixels]
MapUdms == {None, Some(<<1, 1, 1, 1>>), Some(<<0, 1, 1, 0>>), Some(<<1, 0, 1, 1>>),
            Some(<<0, 0, 0, 0>>)}
MapNodata == {None, Some(0), Some(255)}
\* Thresholds and NDVI values are fractions of small integers: the float64
\* quotient of such a fraction compares with the float64 threshold as the
\* fractions compare (equal fractions round to the same float64).
MapThresholds == {<<2, 5>>, <<1, 2>>}

\* ndvi > args.ndvi_threshold, False where ndvi is NaN
AboveThreshold(x, t) == ~x.nan /\ x.num * t[2] > t[1] * x.den

\* (ndvi > args.ndvi_threshold).astype(np.uint8)
ThresholdNdvi(ndvi, t) == [n \in DOMAIN ndvi |-> IF AboveThreshold(ndvi[n], t) THEN 1 ELSE 0]

\* wooded[sel] = v
AssignWhere(a, sel, v) == [n \in DOMAIN a |-> IF sel[n] THEN v ELSE a[n]]

\* The state after the bands are read (lines 80-93).
MapInit ==
  /\ MapOthersIdle
  /\ \E img \in MapRasters :
       /\ wm_red = [n \in 1 .. MapSize |-> img[n][1]]
       /\ wm_nir = [n \in 1 .. MapSize |-> img[n][2]]
  /\ wm_udm \in MapUdms
  /\ wm_nodata \in MapNodata
  /\ wm_threshold \in MapThresholds
  /\ wm_ndvi = <<>>
  /\ wm_wooded = <<>>
  /\ wm_meta_nodata = wm_nodata
  /\ wm_pc = "read"

MapInputs == <<wm_red, wm_nir, wm_udm, wm_nodata, wm_threshold>>

\* lines 95-98
MapThreshold ==
  /\ wm_pc = "read"
  /\ wm_ndvi' = [n \in 1 .. MapSize |-> compute_ndvi(wm_red[n], wm_nir[n])]
  /\ wm_wooded' = ThresholdNdvi(wm_ndvi', wm_threshold)
  /\ wm_pc' = "udm"
  /\ UNCHANGED <<MapOthers, MapInputs, wm_meta_nodata>>

\* lines 100-110: meta always has the key "nodata", so meta.get("nodata", 255)
\* is None when the source declares no value.  Storing None in the uint8
\* array raises TypeError; with no pixel selected the store raises or is a
\* no-op.
MapApplyUdm ==
  /\ wm_pc = "udm"
  /\ IF wm_udm = None
     THEN wm_pc' = "nan" /\ UNCHANGED <<wm_wooded, wm_meta_nodata>>
     ELSE LET invalid == [n \in 1 .. MapSize |-> wm_udm[2][n] = 0]
          IN IF wm_meta_nodata = None
             THEN \/ wm_pc' = "TypeError" /\ UNCHANGED <<wm_wooded, wm_meta_nodata>>
                  \/ /\ \A n \in 1 .. MapSize : ~invalid[n]
                     /\ wm_pc' = "nan"
                     /\ wm_meta_nodata' = Some(NODATA)
                     /\ UNCHANGED wm_wooded
             ELSE /\ wm_wooded' = AssignWhere(wm_wooded, invalid, wm_meta_nodata[2])
                  /\ wm_pc' = "nan"
                  /\ UNCHANGED wm_meta_nodata
  /\ UNCHANGED <<MapOthers, MapInputs, wm_ndvi>>

\* lines 112-118
MapMaskUndefined ==
  /\ wm_pc = "nan"
  /\ LET nodata_val == IF wm_meta_nodata = None THEN NODATA ELSE wm_meta_nodata[2]
     IN /\ wm_meta_nodata' = Some(nodata_val)
        /\ wm_wooded' = AssignWhere(wm_wooded, [n \in 1 .. MapSize |-> wm_ndvi[n].nan], nodata_val)
  /\ wm_pc' = "write"
  /\ UNCHANGED <<MapOthers, MapInputs, wm_ndvi>>

\* lines 120-130
MapWrite ==
  /\ wm_pc = "write"
  /\ wm_pc' = "done"
  /\ UNCHANGED <<MapOthers, MapInputs, wm_ndvi, wm_wooded, wm_meta_nodata>>

MapNext ==
  \/ MapThreshold
  \/ MapApplyUdm
  \/ MapMaskUndefined
  \/ MapWrite

MapSpec == MapInit /\ [][MapNext]_vars

\* ======================================================== rank_scenes.main
\* Clear percentages, and mean NDVI values in hundredths; None where the
\* reader returned None.
ClearValues == {None, Some(40), Some(60), Some(90)}
NdviValues == {None, Some(30), Some(50)}
MinClearValues == {0, 50}
\* The key's stand-in for a missing mean NDVI, -2.0, in hundredths.
NDVI_MISSING == -200

RowsOfLength(n) ==
  {[j \in 1 .. n |-> [scene_id |-> j, clear_pct |-> v[j][1], mean_ndvi |-> v[j][2]]] :
     v \in [1 .. n -> ClearValues \X NdviValues]}

\* def key(r): (mean NDVI or -2.0, clear % or 0)
key(r) ==
  <<IF r.mean_ndvi # None THEN r.mean_ndvi[2] ELSE NDVI_MISSING,
    IF r.clear_pct # None THEN r.clear_pct[2] ELSE 0>>

\* Tuple comparison a > b.
KeyGreater(a, b) == a[1] > b[1] \/ (a[1] = b[1] /\ a[2] > b[2])

\* r is put behind the rows whose key is not smaller: equal keys keep the
\* order of the input, as list.sort(reverse=True) does.
InsertRow(sorted, r) ==
  LET before == SelectSeq(sorted, LAMBDA x : ~KeyGreater(key(r), key(x)))
      after == SelectSeq(sorted, LAMBDA x : KeyGreater(key(r), key(x)))
  IN before \o <<r>> \o after

RECURSIVE SortRows(_, _)
\* eligible.sort(key=key, reverse=True): the first n rows, sorted
SortRows(rws, n) == IF n = 0 THEN <<>> ELSE InsertRow(SortRows(rws, n - 1), rws[n])

\* line 177
Eligible(rws, min_clear) ==
  SelectSeq(rws, LAMBDA r : r.clear_pct # None /\ r.clear_pct[2] >= min_clear)

\* The state after the rows are collected (lines 146-174).
RankInit ==
  /\ RankOthersIdle
  /\ \E n \in 1 .. MaxRows : rk_rows \in RowsOfLength(n)
  /\ rk_min_clear \in MinClearValues
  /\ rk_eligible = <<>>
  /\ rk_best = <<>>
  /\ rk_pc = "filter"

\* lines 176-180
RankFilter ==
  /\ rk_pc = "filter"
  /\ rk_eligible' = IF Eligible(rk_rows, rk_min_clear) = <<>> THEN rk_rows
                    ELSE Eligible(rk_rows, rk_min_clear)
  /\ rk_pc' = "sort"
  /\ UNCHANGED <<RankOthers, rk_rows, rk_min_clear, rk_best>>

\* lines 182-187
RankSort ==
  /\ rk_pc = "sort"
  /\ rk_eligible' = SortRows(rk_eligible, Len(rk_eligible))
  /\ rk_pc' = "recommend"
  /\ UNCHANGED <<RankOthers, rk_rows, rk_min_clear, rk_best>>

\* lines 198-199
RankRecommend ==
  /\ rk_pc = "recommend"
  /\ rk_best' = rk_eligible[1]
  /\ rk_pc' = "done"
  /\ UNCHANGED <<RankOthers, rk_rows, rk_min_clear, rk_eligible>>

RankNext ==
  \/ RankFilter
  \/ RankSort
  \/ RankRecommend

RankSpec == RankInit /\ [][RankNext]_vars

\* ================================================ compute_temporal_features
\* The red and nir bands of the SR images, as <<red, nir>> per pixel.
SeriesRasters ==
  {[shape |-> <<2, 2>>, data |-> <<<<1, 3>>, <<3, 1>>, <<0, 0>>, <<1, 1>>>>],
   [shape |-> <<2, 2>>, data |-> <<<<3, 1>>, <<1, 3>>, <<0, 0>>, <<1, 3>>>>],
   [shape |-> <<2, 2>>, data |-> <<<<1, 1>>, <<1, 1>>, <<1, 3>>, <<0, 0>>>>],
   [shape |-> <<2, 3>>, data |-> <<<<1, 3>>, <<1, 3>>, <<1, 3>>, <<1, 3>>, <<1, 3>>, <<1, 3>>>>]}
\* How loading a scene ends: it is loaded, its SR image is missing, the
\* image has fewer than 4 bands, or reading it raises.
SeriesKinds == {"ok", "no_sr", "few_bands", "error"}
\* The day of the year in the id of the scene at position j.
SeriesDoy(j) == 10 * j
DAYS == 365

SeriesOfLength(n) ==
  {[j \in 1 .. n |-> [doy |-> SeriesDoy(j), kind |-> v[j][1], raster |-> v[j][2]]] :
     v \in [1 .. n -> (SeriesKinds \X SeriesRasters)]}

\* compute_ndvi(red, nir) over a raster
NdviOf(raster) ==
  [shape |-> raster.shape,
   data |-> [n \in DOMAIN raster.data |-> compute_ndvi(raster.data[n][1], raster.data[n][2])]]

\* a > b for two defined NDVI values
NdviGreater(a, b) == a.num * b.den > b.num * a.den

\* np.nanargmax over the stack at pixel n, counted from 0: the first scene
\* of the stack that no defined value of the stack exceeds
NanArgMax(stack, n) ==
  CHOOSE t \in 1 .. Len(stack) :
    /\ ~stack[t].data[n].nan
    /\ \A u \in 1 .. Len(stack) :
         ~stack[u].data[n].nan =>
           /\ ~NdviGreater(stack[u].data[n], stack[t].data[n])
           /\ u < t => NdviGreater(stack[t].data[n], stack[u].data[n])

\* np.any(~np.isnan(ndvi_array[:, i, j]))
AnyDefined(stack, n) == \E t \in 1 .. Len(stack) : ~stack[t].data[n].nan

\* scene_ids[max_idx] and dates.get(...): the date of the scene at that
\* position of scene_ids, None when that scene was not loaded
DateOfMax(ids, loaded, max_idx) ==
  IF max_idx \in DOMAIN loaded THEN Some(ids[max_idx].doy) ELSE None

\* The state at the start of the loading loop (lines 59-64).
TemporalInit ==
  /\ TemporalOthersIdle
  /\ \E n \in 1 .. MaxSeries : tf_scene_ids \in SeriesOfLength(n)
  /\ tf_n = 1
  /\ tf_ndvi_scenes = <<>>
  /\ tf_ref_shape = <<>>
  /\ tf_ndvi_stack = <<>>
  /\ tf_stacked = <<>>
  /\ tf_max_ndvi = <<>>
  /\ tf_doy_max_ndvi = <<>>
  /\ tf_pc = "load"

\* lines 65-98: one scene of the loading loop
LoadScene ==
  /\ tf_pc = "load"
  /\ tf_n <= Len(tf_scene_ids)
  /\ tf_ndvi_scenes' =
       IF tf_scene_ids[tf_n].kind = "ok"
       THEN [j \in DOMAIN tf_ndvi_scenes \cup {tf_n} |->
               IF j = tf_n THEN NdviOf(tf_scene_ids[tf_n].raster) ELSE tf_ndvi_scenes[j]]
       ELSE tf_ndvi_scenes
  /\ tf_n' = tf_n + 1
  /\ UNCHANGED <<TemporalOthers, tf_pc, tf_scene_ids, tf_ref_shape, tf_ndvi_stack, tf_stacked,
                 tf_max_ndvi, tf_doy_max_ndvi>>

\* lines 100-120: the reference shape and the stack
StackScenes ==
  /\ tf_pc = "load"
  /\ tf_n > Len(tf_scene_ids)
  /\ IF DOMAIN tf_ndvi_scenes = {}
     THEN /\ tf_pc' = "ValueError"
          /\ UNCHANGED <<tf_ref_shape, tf_ndvi_stack, tf_stacked>>
     ELSE LET first == CHOOSE j \in DOMAIN tf_ndvi_scenes :
                         \A q \in DOMAIN tf_ndvi_scenes : j <= q
              ref == tf_ndvi_scenes[first].shape
              kept == SelectSeq([j \in 1 .. Len(tf_scene_ids) |-> j],
                                LAMBDA j : /\ j \in DOMAIN tf_ndvi_scenes
                                           /\ tf_ndvi_scenes[j].shape = ref)
          IN /\ tf_ref_shape' = ref
             /\ tf_stacked' = kept
             /\ tf_ndvi_stack' = [t \in 1 .. Len(kept) |-> tf_ndvi_scenes[kept[t]]]
             /\ tf_pc' = "stats"
  /\ UNCHANGED <<TemporalOthers, tf_scene_ids, tf_n, tf_ndvi_scenes, tf_max_ndvi, tf_doy_max_ndvi>>

\* lines 129-144: the maximum NDVI and the day of the year of the maximum
DayOfMax ==
  /\ tf_pc = "stats"
  /\ tf_max_ndvi' =
       [n \in 1 .. (tf_ref_shape[1] * tf_ref_shape[2]) |->
          IF AnyDefined(tf_ndvi_stack, n)
          THEN tf_ndvi_stack[NanArgMax(tf_ndvi_stack, n)].data[n]
          ELSE [nan |-> TRUE, num |-> 0, den |-> 1]]
  /\ tf_doy_max_ndvi' =
       [n \in 1 .. (tf_ref_shape[1] * tf_ref_shape[2]) |->
          IF AnyDefined(tf_ndvi_stack, n)
          THEN LET max_idx == NanArgMax(tf_ndvi_stack, n) - 1
                   date_max == DateOfMax(tf_scene_ids, tf_ndvi_scenes, max_idx + 1)
               IN IF date_max # None THEN <<date_max[2], DAYS>> ELSE <<0, 1>>
          ELSE <<0, 1>>]
  /\ tf_pc' = "done"
  /\ UNCHANGED <<TemporalOthers, tf_scene_ids, tf_n, tf_ndvi_scenes, tf_ref_shape, tf_ndvi_stack,
                 tf_stacked>>

TemporalNext ==
  \/ LoadScene
  \/ StackScenes
  \/ DayOfMax

TemporalSpec == TemporalInit /\ [][TemporalNext]_vars

\* ======================================== predict_scene, echoing classifier
\* float32 values of a feature channel: 0, 0.5, 0.7, 0.9, 1 and 0.50001
EchoValues == <<F0, FHalf, F07, F09, FOne, F050001>>

\* A channel whose neighbouring pixels differ.
EchoPlane(seed, h, w) ==
  [r \in Rows(h) |-> [c \in Cols(w) |-> EchoValues[((seed + 2 * r + 3 * c) % Len(EchoValues)) + 1]]]

\* The stack: the echoed channel behind four base bands of zeros.
EchoStack(seed, h, w) ==
  [ch \in 0 .. NDVI_CH |->
     IF ch = NDVI_CH THEN EchoPlane(seed, h, w)
     ELSE [r \in Rows(h) |-> [c \in Cols(w) |-> F0]]]

EchoModel == <<"echo", F0>>

EchoInit ==
  /\ EchoOthersIdle
  /\ ec_H \in 1 .. MaxH
  /\ ec_W \in 1 .. MaxW
  /\ ec_patch_size \in 1 .. MaxP
  /\ ec_batch_size \in 1 .. MaxBatch
  /\ \E seed \in 1 .. MaxPattern : ec_features = EchoStack(seed, ec_H, ec_W)
  /\ ec_prob = [r \in Rows(ec_H) |-> [c \in Cols(ec_W) |-> F0]]
  /\ ec_count = [r \in Rows(ec_H) |-> [c \in Cols(ec_W) |-> 0]]
  /\ ec_pc = "loop"

\* lines 68-94: the loops and the flush
EchoAccumulate ==
  /\ ec_pc = "loop"
  /\ LET summed == TileLoop([planes |-> [prob |-> ec_prob, count |-> ec_count],
                             batches |-> <<>>, boxes |-> <<>>],
                            ec_features, ec_H, ec_W, ec_patch_size, ec_batch_size, EchoModel, 1)
     IN /\ ec_prob' = summed.prob
        /\ ec_count' = summed.count
  /\ ec_pc' = "normalize"
  /\ UNCHANGED <<EchoOthers, ec_H, ec_W, ec_patch_size, ec_batch_size, ec_features>>

\* lines 96-97
EchoNormalize ==
  /\ ec_pc = "normalize"
  /\ ec_count' = GuardCount(ec_count)
  /\ ec_prob' = NormalizeProb(ec_prob, ec_count')
  /\ ec_pc' = "done"
  /\ UNCHANGED <<EchoOthers, ec_H, ec_W, ec_patch_size, ec_batch_size, ec_features>>

EchoNext ==
  \/ EchoAccumulate
  \/ EchoNormalize

EchoSpec == EchoInit /\ [][EchoNext]_vars

\* ================================================================== claims
Normalized == pc \in {"threshold", "mask", "done"}
LoopOver == pc \in {"tail", "accum_tail", "normalize", "threshold", "mask", "done"}

\* The index formula of pixel (r, c) has a zero denominator (nir + red = 0).
IndexUndefined(r, c) ==
  LET img == SceneImage(scene, H, W)
  IN img[BAND_NIR][r][c] + img[BAND_RED][r][c] = 0

\* m * 2^e > 1/2, written out for a normalised float32.
AboveHalf(x) == x[1] > 0 /\ (x[2] > -24 \/ (x[2] = -24 /\ x[1] > 8388608))

\* C1: every pixel of the final mask is 1, 0 or 255, and it is 255 if and
\* only if the pixel is invalid in the validity mask or its index feature was
\* undefined (zero denominator).
C1_NodataIffInvalidOrUndefined ==
  pc = "done" =>
    \A r \in Rows(H), c \in Cols(W) :
      /\ binary[r][c] \in {0, 1, NODATA}
      /\ (binary[r][c] = NODATA) <=> (~valid_mask[r][c] \/ IndexUndefined(r, c))

\* C2: for every valid pixel the class is 1 exactly when the normalised
\* probability is strictly greater than 0.5, and 0 otherwise (0.5 gives 0).
C2_StrictThreshold ==
  pc = "done" =>
    \A r \in Rows(H), c \in Cols(W) :
      valid_mask[r][c] => binary[r][c] = (IF AboveHalf(prob[r][c]) THEN 1 ELSE 0)

\* C2 witness: a valid pixel with probability exactly 0.5 ended as 0.
C2_Witness ==
  /\ pc = "done"
  /\ \E r \in Rows(H), c \in Cols(W) :
       valid_mask[r][c] /\ prob[r][c] = FHalf /\ binary[r][c] = 0

\* C3: every pixel that is invalid in the validity mask is 255 in the final
\* mask whatever its probability; the overwrite acts on the thresholded mask
\* (all 0/1 when it starts) and is the last write.
C3_InvalidIsNodata ==
  /\ pc = "mask" => \A r \in Rows(H), c \in Cols(W) : binary[r][c] \in {0, 1}
  /\ pc = "done" => \A r \in Rows(H), c \in Cols(W) :
                      ~valid_mask[r][c] => binary[r][c] = NODATA

\* C3 witness: an invalid pixel whose probability was above 0.5 is 255.
C3_Witness ==
  /\ pc = "done"
  /\ \E r \in Rows(H), c \in Cols(W) :
       ~valid_mask[r][c] /\ AboveHalf(prob[r][c]) /\ binary[r][c] = NODATA

\* ------------------------------------------------ the tiling, as specified
\* S = max(1, P // 2)
SpecStride == IF patch_size \div 2 >= 1 THEN patch_size \div 2 ELSE 1

\* Readable extent of the tile with origin (o_r, o_c).
ExtR0(o_r) == IF o_r > 0 THEN o_r ELSE 0
ExtR1(o_r) == IF o_r + patch_size < H THEN o_r + patch_size ELSE H
ExtC0(o_c) == IF o_c > 0 THEN o_c ELSE 0
ExtC1(o_c) == IF o_c + patch_size < W THEN o_c + patch_size ELSE W
Covers(t, r, c) ==
  /\ ExtR0(t.ro) <= r /\ r < ExtR1(t.ro)
  /\ ExtC0(t.co) <= c /\ c < ExtC1(t.co)

\* Indices of the consumed tiles whose extent contains pixel (r, c).
Covering(r, c) == {n \in 1 .. Len(consumed) : Covers(consumed[n], r, c)}

\* The value tile t predicts for pixel (r, c): the patch is aligned with the
\* tile's origin.
TileValue(t, r, c) == t.plane[r - ExtR0(t.ro)][c - ExtC0(t.co)]

\* float32 sum, in consumption order, of the predictions of the first n
\* consumed tiles for pixel (r, c).
RECURSIVE SumUpTo(_, _, _)
SumUpTo(n, r, c) ==
  IF n = 0 THEN F0
  ELSE IF Covers(consumed[n], r, c)
       THEN FAdd(SumUpTo(n - 1, r, c), TileValue(consumed[n], r, c))
       ELSE SumUpTo(n - 1, r, c)

\* C4: when the stride equals the tile size, after all tiles every pixel has
\* coverage count 1 and its normalised probability is the raw output of the
\* one tile that covers it.
C4_NoOverlapIsDirect ==
  (Normalized /\ SpecStride = patch_size) =>
    \A r \in Rows(H), c \in Cols(W) :
      /\ count[r][c] = 1
      /\ Cardinality(Covering(r, c)) = 1
      /\ \A n \in Covering(r, c) : prob[r][c] = TileValue(consumed[n], r, c)

\* C4 witness: a finished pass with stride = tile size over several pixels
\* and a classifier whose output varies.
C4_Witness ==
  /\ pc = "done" /\ SpecStride = patch_size /\ H * W >= 4
  /\ clf[1] # "const"
  /\ \E r \in Rows(H), c \in Cols(W) : prob[r][c] # prob[0][0]

\* C5 as stated: with a constant classifier output c the normalised
\* probability is exactly c at every pixel, whatever the coverage count.
C5_ConstantIsExact ==
  (Normalized /\ clf[1] = "const") =>
    \A r \in Rows(H), c \in Cols(W) : prob[r][c] = clf[2]

\* C5 amended: with a constant classifier output c the normalised
\* probability is exactly c at every pixel whose coverage count is 1, 2 or 4,
\* and these are the only counts when patch_size is even or 1.
C5_ConstantIsExactPow2 ==
  (Normalized /\ clf[1] = "const") =>
    \A r \in Rows(H), c \in Cols(W) :
      /\ count[r][c] \in {1, 2, 4} => prob[r][c] = clf[2]
      /\ (patch_size % 2 = 0 \/ patch_size = 1) => count[r][c] \in {1, 2, 4}

\* C5 witness: 0.9 everywhere, a pixel covered four times, normalised to 0.9.
C5_Witness ==
  /\ pc = "done" /\ clf = <<"const", F09>>
  /\ \E r \in Rows(H), c \in Cols(W) : count[r][c] = 4 /\ prob[r][c] = F09

\* C6: with the default stride every pixel is covered at least once when the
\* tiles are used up, so the count-0 guard changes nothing, and the final
\* probability is the probability sum divided by the coverage count.
C6_CoveredAndDivided ==
  /\ pc = "normalize" => \A r \in Rows(H), c \in Cols(W) : count[r][c] >= 1
  /\ Normalized =>
       \A r \in Rows(H), c \in Cols(W) :
         /\ count[r][c] = Cardinality(Covering(r, c))
         /\ count[r][c] >= 1
         /\ prob[r][c] = FDivN(prob_sum[r][c], Cardinality(Covering(r, c)))

\* C6 witness: a finished pass in which some pixel was covered more than once
\* and its sum was divided.
C6_Witness ==
  /\ pc = "done"
  /\ \E r \in Rows(H), c \in Cols(W) :
       count[r][c] >= 2 /\ prob[r][c] # prob_sum[r][c]

\* A pixel off the raster's border that also lies past the first stride on
\* both axes.
Interior(r, c) ==
  /\ 0 < r /\ r < H - 1 /\ 0 < c /\ c < W - 1
  /\ r >= SpecStride /\ c >= SpecStride

\* C7 as stated: at 50% overlap (P even, stride P/2) every interior pixel has
\* coverage count 2 and its probability is the mean of two predictions.
C7_InteriorCoveredTwice ==
  (Normalized /\ patch_size % 2 = 0) =>
    \A r \in Rows(H), c \in Cols(W) :
      Interior(r, c) =>
        /\ count[r][c] = 2
        /\ prob[r][c] = FDivN(SumUpTo(Len(consumed), r, c), 2)

\* Tiles covering coordinate x along one axis at 50% overlap.
PerAxis(x) == IF x >= SpecStride THEN 2 ELSE 1

\* C7 amended: at 50% overlap (P even, stride P/2) a pixel is covered twice
\* along each axis on which its coordinate is at least the stride, once
\* otherwise; pixels past the first stride on both axes have count 4, and
\* the final probability is the mean of all covering predictions.
C7_InteriorCoveredPerAxis ==
  (Normalized /\ patch_size % 2 = 0) =>
    \A r \in Rows(H), c \in Cols(W) :
      /\ count[r][c] = PerAxis(r) * PerAxis(c)
      /\ (r >= SpecStride /\ c >= SpecStride) => count[r][c] = 4
      /\ prob[r][c] = FDivN(SumUpTo(Len(consumed), r, c), PerAxis(r) * PerAxis(c))

\* C7 witness: an interior pixel averaged over four differing predictions,
\* next to a pixel covered twice.
C7_Witness ==
  /\ pc = "done" /\ patch_size % 2 = 0 /\ clf[1] = "ramp"
  /\ \E r \in Rows(H), c \in Cols(W) :
       /\ Interior(r, c) /\ count[r][c] = 4
       /\ \E n, m \in Covering(r, c) :
            TileValue(consumed[n], r, c) # TileValue(consumed[m], r, c)
  /\ \E r \in Rows(H), c \in Cols(W) : count[r][c] = 2

\* C8: after any prefix of the tile stream, the coverage count of a pixel is
\* the number of consumed tiles whose extent contains it and its probability
\* sum is the sum of those tiles' values from the [0:dr, 0:dc] block; a tile
\* leaves the pixels outside its extent unchanged.
C8_AccumulatorMatchesPrefix ==
  ~Normalized =>
    \A r \in Rows(H), c \in Cols(W) :
      /\ count[r][c] = Cardinality(Covering(r, c))
      /\ prob[r][c] = SumUpTo(Len(consumed), r, c)

\* C8 witness: in the middle of the stream one pixel holds the sum of two
\* differing predictions while another has not been touched yet.
C8_Witness ==
  /\ pc \in {"loop", "accum"} /\ consumed # <<>>
  /\ \E r \in Rows(H), c \in Cols(W) :
       /\ count[r][c] = 2
       /\ \E n, m \in Covering(r, c) :
            TileValue(consumed[n], r, c) # TileValue(consumed[m], r, c)
  /\ \E r \in Rows(H), c \in Cols(W) : count[r][c] = 0 /\ prob[r][c] = F0

\* C9: the tile cut at origin (ro, co) reads rows [max(0,ro), min(H,ro+P))
\* and columns [max(0,co), min(W,co+P)), is padded by the shortfall to P on
\* each side with copies of the nearest edge pixel, and is exactly P x P; for
\* H = W = 10, P = 8 the tile at (8, 8) reads [8:10, 8:10] and is padded by 6
\* rows and 6 columns.
C9_TileExtentAndPadding ==
  tile # <<>> =>
    /\ tile.r0 = ExtR0(tile.ro) /\ tile.r1 = ExtR1(tile.ro)
    /\ tile.c0 = ExtC0(tile.co) /\ tile.c1 = ExtC1(tile.co)
    /\ tile.pads = <<tile.ro - tile.r0, tile.ro + patch_size - tile.r1,
                     tile.co - tile.c0, tile.co + patch_size - tile.c1>>
    /\ DOMAIN tile.patch = DOMAIN features
    /\ \A ch \in DOMAIN tile.patch :
         /\ DOMAIN tile.patch[ch] = 0 .. (patch_size - 1)
         /\ \A i \in 0 .. (patch_size - 1) :
              /\ DOMAIN tile.patch[ch][i] = 0 .. (patch_size - 1)
              /\ \A j \in 0 .. (patch_size - 1) :
                   tile.patch[ch][i][j] =
                     features[ch][IF tile.ro + i < H THEN tile.ro + i ELSE H - 1]
                                 [IF tile.co + j < W THEN tile.co + j ELSE W - 1]
    /\ (<<H, W, patch_size>> = ExampleDims /\ tile.ro = 8 /\ tile.co = 8) =>
         /\ <<tile.r0, tile.r1, tile.c0, tile.c1>> = <<8, 10, 8, 10>>
         /\ tile.pads = <<0, 6, 0, 6>>

\* C9 witness: the example's tile at (8, 8), whose padding copies differing
\* edge pixels.
C9_Witness ==
  /\ tile # <<>>
  /\ <<H, W, patch_size>> = ExampleDims /\ tile.ro = 8 /\ tile.co = 8
  /\ tile.patch[NDVI_CH][7][0] = features[NDVI_CH][9][8]
  /\ tile.patch[NDVI_CH][7][0] # F0

\* The origins of the specification: (i*S, j*S) with i*S < H and j*S < W, in
\* row-major order.
NumRowOrigins == (H + SpecStride - 1) \div SpecStride
NumColOrigins == (W + SpecStride - 1) \div SpecStride
ExpectedOrigins ==
  [n \in 1 .. (NumRowOrigins * NumColOrigins) |->
     <<((n - 1) \div NumColOrigins) * SpecStride, ((n - 1) % NumColOrigins) * SpecStride>>]

\* C10: the tile origins produced are, at every moment, a prefix of the
\* row-major list of the pairs (i*S, j*S) with i*S < H and j*S < W, and when
\* the loops end they are that whole list, ceil(H/S) * ceil(W/S) tiles, each
\* origin once; the list depends on H, W and P only.
C10_RowMajorOrigins ==
  /\ Len(origins) <= Len(ExpectedOrigins)
  /\ origins = SubSeq(ExpectedOrigins, 1, Len(origins))
  /\ LoopOver => origins = ExpectedOrigins
  /\ \A n, m \in 1 .. Len(origins) : origins[n] = origins[m] => n = m
  /\ ~LoopOver /\ pc = "loop" => Len(origins) < Len(ExpectedOrigins)

\* C10 witness: the loops ended after several rows and columns of origins.
C10_Witness ==
  /\ pc = "tail"
  /\ NumRowOrigins >= 2 /\ NumColOrigins >= 2
  /\ Len(origins) = NumRowOrigins * NumColOrigins

\* ------------------------------------------- the pass with batch size 1
\* The patch of the tile with origin o: the window at o, cells past the
\* raster's edge copying the nearest edge pixel.
SpecPatch(o) ==
  [ch \in DOMAIN features |->
     [i \in 0 .. (patch_size - 1) |-> [j \in 0 .. (patch_size - 1) |->
        features[ch][IF o[1] + i < H THEN o[1] + i ELSE H - 1]
                    [IF o[2] + j < W THEN o[2] + j ELSE W - 1]]]]

OriginTile(n) == [ro |-> ExpectedOrigins[n][1], co |-> ExpectedOrigins[n][2]]

\* Probability sum of pixel (r, c) after the first n tiles, each classified
\* on its own and accumulated before the next one is cut.
RECURSIVE OneByOneSum(_, _, _)
OneByOneSum(n, r, c) ==
  IF n = 0 THEN F0
  ELSE IF Covers(OriginTile(n), r, c)
       THEN FAdd(OneByOneSum(n - 1, r, c),
                 Infer(clf, SpecPatch(ExpectedOrigins[n]))
                   [r - ExtR0(ExpectedOrigins[n][1])][c - ExtC0(ExpectedOrigins[n][2])])
       ELSE OneByOneSum(n - 1, r, c)

OneByOneCount(r, c) ==
  Cardinality({n \in 1 .. Len(ExpectedOrigins) : Covers(OriginTile(n), r, c)})

OneByOneMask(r, c) ==
  IF ~valid_mask[r][c] THEN NODATA
  ELSE IF AboveHalf(FDivN(OneByOneSum(Len(ExpectedOrigins), r, c), OneByOneCount(r, c)))
       THEN 1 ELSE 0

\* C11: for every batch size, the patches handed to the classifier are the
\* tiles in order, each once (the partial batch after the loops included);
\* the k-th plane of a batch is the classifier's answer for the k-th tile of
\* that batch and is accumulated at that tile's origin; and the final mask
\* equals the mask of the pass that classifies one tile at a time.
C11_BatchingIsTransparent ==
  /\ Len(submitted) <= Len(ExpectedOrigins)
  /\ submitted = SubSeq(ExpectedOrigins, 1, Len(submitted))
  /\ Normalized => submitted = ExpectedOrigins
  /\ Len(consumed) <= Len(submitted)
  /\ \A n \in 1 .. Len(consumed) :
       <<consumed[n].ro, consumed[n].co>> = ExpectedOrigins[n]
  \* the plane just accumulated, and at the end every plane
  /\ \A n \in (IF pc = "done" THEN 1 ELSE Max(1, Len(consumed))) .. Len(consumed) :
       consumed[n].plane = Infer(clf, SpecPatch(ExpectedOrigins[n]))
  /\ pc = "done" =>
       \A r \in Rows(H), c \in Cols(W) : binary[r][c] = OneByOneMask(r, c)

\* C11 witness: a finished pass with batches of two over an odd number of
\* tiles (so the last batch was partial) whose planes differ between tiles.
C11_Witness ==
  /\ pc = "done" /\ batch_size = 2 /\ clf[1] = "echo"
  /\ Len(consumed) % 2 = 1 /\ Len(consumed) >= 3
  /\ submitted = ExpectedOrigins
  /\ \E n \in 1 .. (Len(consumed) - 1) : consumed[n].plane # consumed[n + 1].plane

\* ------------------------------------------------ the accuracy evaluator
Counted == m_pc \in {"counted", "returned", "ZeroDivisionError"}
PixelIndices == 1 .. NumPixels(m_read_shapes[1])

\* C12: whenever the predicted and the reference raster differ in shape, the
\* call ends with the shape-mismatch error and returns no metrics.
C12_ShapeMismatchFails ==
  (m_pc \notin {"off", "read", "squeezed"} /\ m_read_shapes[1] # m_read_shapes[2])
    => (m_pc = "ValueError" /\ m_counts = <<>> /\ m_metrics = <<>>)

\* A pixel of the valid intersection, as specified without the predicted
\* raster's no-data value.
InIntersection(i) ==
  /\ m_ref.data[i] \in {0, 1}
  /\ (m_ref_nodata_val # None => m_ref.data[i] # m_ref_nodata_val[2])
  /\ m_pred.data[i] \in {0, 1}

\* C13: the pixels used are those whose reference value is 0 or 1 and not the
\* reference no-data value and whose predicted value is 0 or 1; every pixel
\* whose predicted value is pred_nodata is left out.
C13_ValidIntersection ==
  Counted =>
    \A i \in PixelIndices :
      /\ m_counts.valid[i] <=> InIntersection(i)
      /\ m_pred.data[i] = m_pred_nodata => ~m_counts.valid[i]

CountPairs(t, p) ==
  Cardinality({i \in PixelIndices :
                 InIntersection(i) /\ m_ref.data[i] = t /\ m_pred.data[i] = p})

\* C14: tp, tn, fp, fn count the pixels of the valid intersection with
\* (reference, predicted) = (1,1), (0,0), (0,1), (1,0); they add up to n_valid,
\* and n_valid + n_skip is the number of pixels of the raster.
C14_ConfusionCounts ==
  Counted =>
    /\ m_counts.tp = CountPairs(1, 1)
    /\ m_counts.tn = CountPairs(0, 0)
    /\ m_counts.fp = CountPairs(0, 1)
    /\ m_counts.fn = CountPairs(1, 0)
    /\ m_counts.tp + m_counts.tn + m_counts.fp + m_counts.fn = m_counts.n_valid
    /\ m_counts.n_valid + m_counts.n_skip = NumPixels(m_read_shapes[1])
    /\ m_pc = "returned" =>
         /\ m_metrics.confusion_matrix =
              [tp |-> m_counts.tp, tn |-> m_counts.tn, fp |-> m_counts.fp, fn |-> m_counts.fn]
         /\ m_metrics.n_valid = m_counts.n_valid
         /\ m_metrics.n_skip = m_counts.n_skip

\* C14 witness: a returned call with all four cells non-zero, more false
\* positives than false negatives, and skipped pixels.
C14_Witness ==
  /\ m_pc = "returned"
  /\ m_counts.tp > 0 /\ m_counts.tn > 0 /\ m_counts.fn > 0
  /\ m_counts.fp > m_counts.fn
  /\ m_counts.n_skip > 0

\* The numbers the statistics are specified from.
NValid == m_counts.tp + m_counts.tn + m_counts.fp + m_counts.fn
Agreements == m_counts.tp + m_counts.tn
ChanceProduct ==
  (m_counts.tp + m_counts.fp) * (m_counts.tp + m_counts.fn)
    + (m_counts.fn + m_counts.tn) * (m_counts.fp + m_counts.tn)

\* The fraction q is num / den (den # 0).
IsQuotient(q, num, den) == q[2] > 0 /\ q[1] * den = q[2] * num

\* C15: kappa = (po - pe) / (1 - pe) with po the accuracy and
\* pe = ((tp+fp)(tp+fn) + (fn+tn)(fp+tn)) / n^2; it is 0 whenever 1 - pe = 0
\* (all pixels of one class in both rasters) and when n = 0, and no division
\* by zero is raised.
C15_KappaGuarded ==
  /\ m_pc # "ZeroDivisionError"
  /\ m_pc = "returned" =>
       IF NValid = 0 \/ ChanceProduct = NValid * NValid
       THEN m_metrics.kappa = RZero
       ELSE \* (a/n - X/n^2) / (1 - X/n^2) = (a*n - X) / (n^2 - X)
            IsQuotient(m_metrics.kappa, Agreements * NValid - ChanceProduct,
                       NValid * NValid - ChanceProduct)

\* C15 witness: ten pixels, all wooded in both rasters: pe = 1 and kappa = 0.
C15_Witness ==
  /\ m_pc = "returned"
  /\ m_metrics.confusion_matrix = [tp |-> 10, tn |-> 0, fp |-> 0, fn |-> 0]
  /\ ChanceProduct = NValid * NValid
  /\ m_metrics.kappa = RZero

\* C16: accuracy = (tp+tn)/n, precision = tp/(tp+fp), recall = tp/(tp+fn) and
\* F1 = 2 precision recall / (precision + recall), each 0 when its denominator
\* is 0; no division by zero is raised.
C16_RatiosGuarded ==
  /\ m_pc # "ZeroDivisionError"
  /\ m_pc = "returned" =>
       LET precision == m_metrics.precision
           recall == m_metrics.recall
       IN /\ IF NValid = 0 THEN m_metrics.accuracy = RZero
             ELSE IsQuotient(m_metrics.accuracy, Agreements, NValid)
          /\ IF m_counts.tp + m_counts.fp = 0 THEN precision = RZero
             ELSE IsQuotient(precision, m_counts.tp, m_counts.tp + m_counts.fp)
          /\ IF m_counts.tp + m_counts.fn = 0 THEN recall = RZero
             ELSE IsQuotient(recall, m_counts.tp, m_counts.tp + m_counts.fn)
          /\ IF precision = RZero /\ recall = RZero THEN m_metrics.f1 = RZero
             ELSE IsQuotient(m_metrics.f1, 2 * precision[1] * recall[1],
                             precision[1] * recall[2] + recall[1] * precision[2])

\* C16 witness: a raster without a single valid pixel: every denominator is 0.
C16_Witness ==
  /\ m_pc = "returned"
  /\ m_counts.n_valid = 0 /\ m_counts.n_skip > 0
  /\ m_metrics.accuracy = RZero /\ m_metrics.precision = RZero
  /\ m_metrics.recall = RZero /\ m_metrics.f1 = RZero

\* C17: without false positives and false negatives, and with pixels of both
\* classes, accuracy, precision, recall, F1 and kappa are all exactly 1.
C17_PerfectAgreement ==
  (Counted /\ m_counts.fp = 0 /\ m_counts.fn = 0 /\ m_counts.tp > 0 /\ m_counts.tn > 0)
    => /\ m_pc # "ZeroDivisionError"
       /\ m_pc = "returned" =>
            /\ m_metrics.accuracy = ROne /\ m_metrics.precision = ROne
            /\ m_metrics.recall = ROne /\ m_metrics.f1 = ROne
            /\ m_metrics.kappa = ROne

\* C17 witness: tp = tn = 5.
C17_Witness ==
  /\ m_pc = "returned"
  /\ m_metrics.confusion_matrix = [tp |-> 5, tn |-> 5, fp |-> 0, fn |-> 0]
  /\ m_metrics.kappa = ROne /\ m_metrics.f1 = ROne

\* ---------------------------------------------------- the feature engine
BandsEnsured == cf_pc \notin {"off", "read"}
FeatureError == cf_pc \in {"ValueError", "IndexError"}
ReadChannels == cf_read.shape[1]
ReadPixels == cf_read.shape[2] * cf_read.shape[3]
ProperRaster == cf_read.shape[2] >= 2 /\ cf_read.shape[3] >= 2

\* Band b of the image as read, pixel by pixel, as float32.
ReadBand(b) ==
  [j \in 1 .. ReadPixels |-> RoundF32(cf_read.data[b * ReadPixels + j], 0)]

\* img holds the first four bands of the image read.
FirstFourKept ==
  /\ cf_img.shape = <<4, cf_read.shape[2], cf_read.shape[3]>>
  /\ \A b \in 0 .. 3 : Band(cf_img, b) = ReadBand(b)

\* C18 as stated: every image of fewer than 4 channels is refused, and of an
\* image of more than 4 channels the first 4 are used.
C18_FewerThanFourFails ==
  BandsEnsured =>
    /\ ReadChannels < 4 => (FeatureError /\ cf_features = <<>>)
    /\ ReadChannels > 4 => (~FeatureError /\ FirstFourKept)

\* C18: for an image of at least 2 rows and 2 columns, 2 or 3 channels are
\* refused with an error; a single channel is accepted and repeated as all
\* four base bands; of 4 or more channels the first 4 are used.
C18_ChannelCountHandling ==
  (BandsEnsured /\ ProperRaster) =>
    /\ ReadChannels \in {2, 3} => (cf_pc = "ValueError" /\ cf_features = <<>>)
    /\ ReadChannels = 1 =>
         /\ ~FeatureError
         /\ cf_img.shape = <<4, cf_read.shape[2], cf_read.shape[3]>>
         /\ \A b \in 0 .. 3 : Band(cf_img, b) = ReadBand(0)
    /\ ReadChannels >= 4 => (~FeatureError /\ FirstFourKept)

\* C18 witness: a single-channel 2 x 2 image with both values, returned with
\* four equal base bands.
C18_Witness ==
  /\ cf_pc = "returned"
  /\ cf_read.shape = <<1, 2, 2>>
  /\ \E i, j \in 1 .. 4 : cf_read.data[i] # cf_read.data[j]
  /\ \A b \in 0 .. 3 : Band(cf_features, b) = ReadBand(0)

\* The index channels as specified, for band values 0 and 1: (x + 1) / 2 of
\* the raw index, in float32; 3/11 and 9/28 are the two EVI values that are
\* not 0, 1/2 or 1.
ExpectedIndex(nm, blue, green, red, nir) ==
  CASE nm = "ndvi" ->
         IF nir + red = 0 THEN F0
         ELSE IF nir > red THEN FOne ELSE IF nir < red THEN F0 ELSE FHalf
    [] nm = "evi" ->
         IF nir = red THEN FHalf
         ELSE IF nir > red THEN (IF blue = 0 THEN FOne ELSE <<9151209, -25>>)
         ELSE (IF blue = 0 THEN <<10785353, -25>> ELSE FOne)
    [] nm = "savi" ->
         IF nir > red THEN FOne ELSE IF nir < red THEN F0 ELSE FHalf
    [] nm = "ndwi" ->
         IF green + nir = 0 THEN FNaN
         ELSE IF green > nir THEN FOne ELSE IF green < nir THEN F0 ELSE FHalf

IndexNames == {"ndvi", "evi", "savi", "ndwi"}
Rank(nm) == CASE nm = "ndvi" -> 1 [] nm = "evi" -> 2 [] nm = "savi" -> 3 [] nm = "ndwi" -> 4

\* The channel of a selected index: after the base bands and the selected
\* indices that come before it.
ChannelOf(nm) ==
  4 + Cardinality({o \in IndexNames : cf_flags[o] /\ Rank(o) < Rank(nm)})

BandValue(b, j) == AsFloat64(Band(cf_img, b)[j])

C20_IndexChannelsFinite ==
  cf_pc = "returned" =>
    \A ch \in 4 .. (cf_features.shape[1] - 1) :
      \A j \in 1 .. Size(Tail(cf_features.shape)) :
        LET v == Band(cf_features, ch)[j]
        IN v # FNaN /\ v[1] >= 0 /\ ~FGt(v, FOne)

\* ------------------------------------------------------ the index formulas
\* The result r is the undefined marker if den = 0 and num / den otherwise.
IsFormula(r, num, den) ==
  IF den = 0 THEN r.nan
  ELSE ~r.nan /\ r.den > 0 /\ r.num * den = r.den * num

DlFeaturesProduced == dl_pc # "read" /\ dl_img # dl_read

\* C22: when the channel count of the features differs from the count the
\* classifier expects, the run ends with an error before any patch is handed
\* to the classifier and before the output raster is written.
C22_MismatchFailsFast ==
  (DlFeaturesProduced /\ dl_img.shape[1] # dl_n_channels) =>
    (dl_pc = "ValueError" /\ dl_submitted = 0 /\ ~dl_written)

\* ------------------------------------------------- the multi-scene batch
\* The scenes logged so far are the first scenes of the list, in order.
VisitedInOrder ==
  /\ Len(bt_log) <= Len(bt_scene_ids)
  /\ \A j \in 1 .. Len(bt_log) : bt_log[j].scene = bt_scene_ids[j]

\* C23: a failure at any step of a scene (existence check, download, features,
\* channel mismatch, inference, write, upload) only skips that scene: the run
\* never stops before the closing print, and when it has stopped every scene
\* of the list has been visited, in the order of the list.
C23_FailureSkipsOnlyScene ==
  /\ bt_pc # "aborted"
  /\ bt_pc # "off" => VisitedInOrder
  /\ bt_pc = "completed" => Len(bt_log) = Len(bt_scene_ids)

\* The mask predict_scene returns for scene sc when it is called on planes
\* of zeros, as for a scene processed alone.
SoloMask(sc) ==
  predict_scene([prob |-> [r \in Rows(bt_H) |-> [c \in Cols(bt_W) |-> F0]],
                 count |-> [r \in Rows(bt_H) |-> [c \in Cols(bt_W) |-> 0]]],
                compute_features(SceneImage(sc, bt_H, bt_W), bt_H, bt_W),
                MakeValidMask(sc, bt_H, bt_W),
                bt_H, bt_W, bt_patch_size, bt_batch_size, bt_model).binary

\* C25: the planes of sums and counts start from zero for every scene of the
\* batch: the mask written for a scene is the mask of that scene's features,
\* validity mask, patch size and classifier alone, whatever scenes came before
\* it (the invariant looks at the latest raster written, so at each in turn).
C25_SceneMaskIndependent ==
  bt_written # <<>> =>
    bt_written[Len(bt_written)].binary = SoloMask(bt_written[Len(bt_written)].scene)

\* Two different scenes have been written in one run, with different masks.
C25_Witness ==
  /\ Len(bt_written) >= 2
  /\ bt_written[1].scene # bt_written[2].scene
  /\ bt_written[1].binary # bt_written[2].binary
  /\ C25_SceneMaskIndependent

\* --------------------------------------------------- the NDVI-threshold map
\* The no-data value of the output: the declared one, 255 when none is.
MapNodataValue == IF wm_nodata = None THEN NODATA ELSE wm_nodata[2]

\* Pixel n is masked by the UDM or has no NDVI.
MapMasked(n) ==
  \/ wm_udm # None /\ wm_udm[2][n] = 0
  \/ wm_nir[n] + wm_red[n] = 0

\* C24: with or without a declared no-data value the map is written, a pixel
\* of it equals the no-data value (255 when none is declared) exactly when the
\* UDM marks it invalid or nir + red = 0, and every other pixel is 1 when
\* NDVI > threshold and 0 otherwise.
C24_NodataIffMasked ==
  /\ wm_pc # "TypeError"
  /\ wm_pc = "done" =>
       \A n \in 1 .. MapSize :
         /\ wm_wooded[n] = MapNodataValue <=> MapMasked(n)
         /\ ~MapMasked(n) =>
              wm_wooded[n] = (IF (wm_nir[n] - wm_red[n]) * wm_threshold[2]
                                   > wm_threshold[1] * (wm_nir[n] + wm_red[n])
                              THEN 1 ELSE 0)

\* ------------------------------------------------------- the scene ranking
\* Row a may stand before row b in a ranking by clear percentage first and
\* mean NDVI second.
ClearThenNdvi(a, b) ==
  \/ a.clear_pct[2] > b.clear_pct[2]
  \/ a.clear_pct[2] = b.clear_pct[2] /\ a.mean_ndvi[2] >= b.mean_ndvi[2]

\* Both values of the row were read.
Measured(r) == r.clear_pct # None /\ r.mean_ndvi # None

\* C26: the ranking lists the eligible scenes by clear percentage first and
\* by mean NDVI second, and the recommended scene is the first of it: the
\* scene with the highest clear percentage, mean NDVI breaking ties.
C26_RankedByClearThenNdvi ==
  rk_pc = "done" =>
    /\ rk_best = rk_eligible[1]
    /\ \A i, j \in 1 .. Len(rk_eligible) :
         (i < j /\ Measured(rk_eligible[i]) /\ Measured(rk_eligible[j])) =>
           ClearThenNdvi(rk_eligible[i], rk_eligible[j])

\* ---------------------------------------------------- the temporal features
\* The stacked scene at position t of the stack has the maximum NDVI of the
\* stack at pixel n.
HasMaxAt(t, n) ==
  /\ ~tf_ndvi_stack[t].data[n].nan
  /\ \A u \in 1 .. Len(tf_ndvi_stack) :
       ~tf_ndvi_stack[u].data[n].nan =>
         ~NdviGreater(tf_ndvi_stack[u].data[n], tf_ndvi_stack[t].data[n])

\* C27: the day of the year stored for a pixel is the acquisition day of a
\* scene whose NDVI is the maximum at that pixel, also when scenes of the
\* list were skipped before the stack was built.
C27_DayOfMaxScene ==
  tf_pc = "done" =>
    \A n \in DOMAIN tf_doy_max_ndvi :
      AnyDefined(tf_ndvi_stack, n) =>
        \E t \in 1 .. Len(tf_ndvi_stack) :
          /\ HasMaxAt(t, n)
          /\ tf_doy_max_ndvi[n] = <<tf_scene_ids[tf_stacked[t]].doy, DAYS>>

\* ------------------------------------------------- the range of the metrics
\* The fraction x lies in [lo, 1] for lo = 0 or lo = -1.
InRange(x, lo) == x[2] > 0 /\ lo * x[2] <= x[1] /\ x[1] <= x[2]

\* C30: whatever the four counts, accuracy, precision, recall and F1 lie in
\* [0, 1] and kappa in [-1, 1], and kappa is 1 only without false positives
\* and false negatives and with pixels of both classes.
C30_MetricsInRange ==
  m_pc = "returned" =>
    /\ InRange(m_metrics.accuracy, 0) /\ InRange(m_metrics.precision, 0)
    /\ InRange(m_metrics.recall, 0) /\ InRange(m_metrics.f1, 0)
    /\ InRange(m_metrics.kappa, -1)
    /\ m_metrics.kappa = ROne =>
         /\ m_counts.fp = 0 /\ m_counts.fn = 0
         /\ m_counts.tp > 0 /\ m_counts.tn > 0

\* C30 witness: only disagreements, one of each kind: kappa is -1, the bottom
\* of its range, and the four ratios are 0.
C30_Witness ==
  /\ m_pc = "returned"
  /\ m_counts.tp = 0 /\ m_counts.tn = 0 /\ m_counts.fp = 1 /\ m_counts.fn = 1
  /\ m_metrics.kappa = Rat(-1, 1)
  /\ m_metrics.f1 = RZero
  /\ C30_MetricsInRange

\* ------------------------------------------- the range of the probabilities
\* The planes hold sums: normalization has not run yet.
Summing == pc \in {"loop", "accum", "tail", "accum_tail", "normalize"}

\* Every value the classifier has returned so far lies in [0, 1].
ClassifierInRange ==
  \A n \in 1 .. Len(consumed) :
    \A i \in DOMAIN consumed[n].plane : \A j \in DOMAIN consumed[n].plane[i] :
      consumed[n].plane[i][j][1] >= 0 /\ ~FGt(consumed[n].plane[i][j], FOne)

\* C29: with classifier values in [0, 1], after any number of consumed tiles
\* the probability sum of every pixel lies between 0 and the pixel's coverage
\* count, and after normalization every probability lies in [0, 1].
C29_ProbabilityInRange ==
  (pc # "off" /\ ClassifierInRange) =>
    \A r \in Rows(H), c \in Cols(W) :
      /\ prob[r][c][1] >= 0
      /\ ~FGt(prob[r][c], IF Summing THEN RoundF32(count[r][c], 0) ELSE FOne)

\* A finished run in which a pixel covered by four tiles has probability 1,
\* the top of the range.
C29_Witness ==
  /\ pc = "done"
  /\ \E r \in Rows(H), c \in Cols(W) : count[r][c] = 4 /\ prob[r][c] = FOne
  /\ C29_ProbabilityInRange

\* ------------------------------------------------- the echoing classifier
RECURSIVE SumOfCopies(_, _)
\* The float32 sum of n copies of v, added one at a time.
SumOfCopies(v, n) == IF n = 0 THEN F0 ELSE FAdd(SumOfCopies(v, n - 1), v)

\* C28 as claimed: with a classifier that echoes one channel, the normalized
\* probability equals that channel at every pixel, for every H, W, P and
\* batch size.
C28_EchoIsIdentity ==
  ec_pc = "done" =>
    \A r \in Rows(ec_H), c \in Cols(ec_W) : ec_prob[r][c] = ec_features[NDVI_CH][r][c]

\* C28: reconstruction is aligned with the input grid: every tile that covers
\* a pixel adds the value of that very pixel, so the normalized probability
\* is the float32 sum of count copies of the pixel's channel value divided by
\* the count, and equals the channel value where the count is 1, 2 or 4
\* (every pixel when P is even or 1).
C28_EchoIsAligned ==
  ec_pc = "done" =>
    /\ \A r \in Rows(ec_H), c \in Cols(ec_W) :
         /\ ec_prob[r][c] = FDivN(SumOfCopies(ec_features[NDVI_CH][r][c], ec_count[r][c]),
                                  ec_count[r][c])
         /\ ec_count[r][c] \in {1, 2, 4} => ec_prob[r][c] = ec_features[NDVI_CH][r][c]
    /\ (ec_patch_size = 1 \/ ec_patch_size % 2 = 0) =>
         \A r \in Rows(ec_H), c \in Cols(ec_W) : ec_count[r][c] \in {1, 2, 4}

\* A finished run with padded tiles, overlap, and a pixel covered three times
\* whose probability is not its channel value.
C28_Witness ==
  /\ ec_pc = "done"
  /\ ec_patch_size = 3
  /\ \E r \in Rows(ec_H), c \in Cols(ec_W) :
       /\ ec_count[r][c] = 3
       /\ ec_prob[r][c] # ec_features[NDVI_CH][r][c]
  /\ \E r \in Rows(ec_H), c \in Cols(ec_W) : ec_count[r][c] = 1
  /\ C28_EchoIsAligned

====
